---- MODULE Spec2Model ----
(***************************************************************************)
(* Model of the sampling, outlier-filtering and aggregation engine of the  *)
(* liboqs benchmark scripts:                                               *)
(*   benchmark/collect_mem_massif.py      (direct memory collection)       *)
(*   benchmark/run_all_mem_bench.py       (cross-process aggregation)      *)
(*   benchmark/run_speed_kem_benchmark.py (speed benchmark)                *)
(*                                                                         *)
(* Python floats are modelled by exact rationals [num, den] in lowest      *)
(* terms.  A value that involves a square root (a standard deviation, a    *)
(* confidence bound) is kept in closed form: mid + c/1000 * sqrt(r).       *)
(* Memory samples are byte counts divided by 2^20, on which the float      *)
(* operations of the quartile and bound computation are exact.  Speed      *)
(* samples are parsed decimal fractions: there the computed bounds carry   *)
(* a rounding error, which decides the comparison of a sample that lies    *)
(* exactly on a bound; the model takes the outcome of such a comparison    *)
(* as an input (see TieOutcomes).                                          *)
(* A raised exception is the record [exc |-> <name>]; a normal return is   *)
(* [exc |-> "none", val |-> <value>].                                      *)
(***************************************************************************)
EXTENDS Integers, Sequences, FiniteSets, TLC

VARIABLES
    values,     \* the sample list handed to a filter or an estimator
    df,         \* the degrees of freedom handed to a critical-value lookup
    ms_output,  \* the ms_print report handed to the parser (a character sequence)
    call,       \* the function applied to the input, "none" before the call
    ret,        \* what the call returned or raised
    prog,       \* the script that runs, "none" when a single function is applied
    pc,         \* the position of the script
    num_runs,   \* the requested number of repetitions (-n)
    key,        \* direct collection: the position in the list of operations
    run,        \* the number of runs or child processes started so far
    samples,    \* the raw samples collected so far
    rows,       \* the summary rows computed so far
    used_files, \* aggregation: the artifacts selected for the pass
    fs,         \* the files of the results directory
    now,        \* the wall clock, in seconds
    ts,         \* the timestamp in the names of the files the script writes
    exc,        \* the exception that ended the script, "none" if none
    binary,     \* the name of the binary under measurement
    log,        \* the warnings and errors the batch script printed so far
    alive,      \* the child processes the script started that have not ended
    cpu,        \* the CPU mode of the machine the pipeline driver runs on
    cpu_state,  \* the pipeline driver's record of the CPU mode it found
    restore_calls \* the states restore_benchmark_cpu_mode was called with

funcVars == <<values, df, ms_output, call, ret>>
progVars ==
    <<prog, pc, num_runs, key, run, samples, rows, used_files, fs, now, ts, exc,
      binary, log, alive>>
cpuVars == <<cpu, cpu_state, restore_calls>>
vars == <<values, df, ms_output, call, ret,
          prog, pc, num_runs, key, run, samples, rows, used_files, fs, now, ts, exc,
          binary, log, alive, cpu, cpu_state, restore_calls>>

(***************************************************************************)
(* Bounds of the model.                                                    *)
(***************************************************************************)
MaxLen == 5
MaxSample == 2
MaxDf == 101
MaxLines == 3
MaxRuns == 4
MaxRemoveErrors == 1
MaxBatchRuns == 2

(***************************************************************************)
(* Exceptions and returns.                                                 *)
(***************************************************************************)
Raise(e) == [exc |-> e]
Return(v) == [exc |-> "none", val |-> v]
Raised(r) == r.exc # "none"

(***************************************************************************)
(* Exact rational arithmetic standing for float arithmetic.                *)
(***************************************************************************)
Abs(x) == IF x < 0 THEN -x ELSE x

RECURSIVE GCD(_, _)
GCD(a, b) == IF b = 0 THEN a ELSE GCD(b, a % b)

Rat(n, d) ==
    LET g == GCD(Abs(n), Abs(d))
        s == IF d < 0 THEN -1 ELSE 1
    IN  [num |-> (s * n) \div g, den |-> (s * d) \div g]

Float(i) == Rat(i, 1)
RAdd(a, b) == Rat(a.num * b.den + b.num * a.den, a.den * b.den)
RSub(a, b) == Rat(a.num * b.den - b.num * a.den, a.den * b.den)
RMul(a, b) == Rat(a.num * b.num, a.den * b.den)
RDiv(a, b) == Rat(a.num * b.den, a.den * b.num)
RLe(a, b) == a.num * b.den <= b.num * a.den
RFloor(a) == a.num \div a.den
RCeil(a) == -((-a.num) \div a.den)

\* mid + (c / 1000) * sqrt(r): c in thousandths, r a rational >= 0.
Surd(mid, c, r) ==
    IF c = 0 \/ r.num = 0
    THEN [mid |-> mid, c |-> 0, r |-> Float(0)]
    ELSE [mid |-> mid, c |-> c, r |-> r]

(***************************************************************************)
(* Sequence helpers standing for Python list operations.                   *)
(***************************************************************************)
\* [float(v) for v in s] of a list of integers.
Floats(s) == [i \in DOMAIN s |-> Float(s[i])]

\* float(text) of a field printed with one decimal, given in tenths
\* ("0.3" is 3): the list of time_us_mean values of a key.
Decimals(s) == [i \in DOMAIN s |-> Rat(s[i], 10)]

\* Whether a rational is a binary fraction, that is, a float without a
\* representation error.
RECURSIVE IsPowerOfTwo(_)
IsPowerOfTwo(n) == n = 1 \/ (n % 2 = 0 /\ IsPowerOfTwo(n \div 2))

ExactFloat(x) == IsPowerOfTwo(x.den)

RECURSIVE Sum(_)
Sum(s) == IF s = <<>> THEN Float(0) ELSE RAdd(Head(s), Sum(Tail(s)))

RECURSIVE SumSq(_)
SumSq(s) ==
    IF s = <<>> THEN Float(0) ELSE RAdd(RMul(Head(s), Head(s)), SumSq(Tail(s)))

RECURSIVE Insert(_, _)
Insert(x, s) ==
    IF s = <<>> THEN <<x>>
    ELSE IF RLe(x, Head(s)) THEN <<x>> \o s
    ELSE <<Head(s)>> \o Insert(x, Tail(s))

RECURSIVE sorted(_)
sorted(s) == IF s = <<>> THEN <<>> ELSE Insert(Head(s), sorted(Tail(s)))

\* list(range(n)): the 0-based positions 0 .. n-1.
range(n) == [i \in 1..n |-> i - 1]

\* [True] * n
AllTrue(n) == [i \in 1..n |-> TRUE]

\* sum(mask) over a list of booleans.
CountTrue(mask) == Cardinality({i \in DOMAIN mask : mask[i]})

\* [v for v, keep in zip(lst, mask) if keep]; zip stops at the shorter list.
RECURSIVE ZipFilter(_, _)
ZipFilter(lst, mask) ==
    IF lst = <<>> \/ mask = <<>> THEN <<>>
    ELSE (IF Head(mask) THEN <<Head(lst)>> ELSE <<>>)
         \o ZipFilter(Tail(lst), Tail(mask))

\* [lst[i] for i in keep_idx], keep_idx holding 0-based positions.
Pick(lst, keep_idx) == [k \in DOMAIN keep_idx |-> lst[keep_idx[k] + 1]]

(***************************************************************************)
(* statistics.mean / statistics.stdev / statistics.quantiles               *)
(***************************************************************************)
\* Mutant of stats_mean: the sum starts at the second sample.
stats_mean_skip_first(vals) ==
    IF Len(vals) < 1 THEN Raise("StatisticsError")
    ELSE Return(RDiv(Sum(Tail(vals)), Float(Len(vals))))

\* statistics.mean: StatisticsError on an empty list.
stats_mean(vals) ==
    IF Len(vals) < 1 THEN Raise("StatisticsError")
    ELSE Return(RDiv(Sum(vals), Float(Len(vals))))

\* The sample variance (divisor n-1); statistics.stdev is its square root.
Variance(vals) ==
    LET n == Len(vals)
    IN  RDiv(RSub(RMul(Float(n), SumSq(vals)), RMul(Sum(vals), Sum(vals))),
             Float(n * (n - 1)))

\* statistics.quantiles(values, n=4, method="inclusive") on >= 2 points.
stats_quantiles(vals) ==
    LET data == sorted(vals)
        m == Len(data) - 1
        cut(i) ==
            LET j == (i * m) \div 4
                delta == (i * m) % 4
            IN  RDiv(RAdd(RMul(data[j + 1], Float(4 - delta)),
                          RMul(data[j + 2], Float(delta))),
                     Float(4))
    IN  [i \in 1..3 |-> cut(i)]

(***************************************************************************)
(* Memory scripts: t_critical_95, summary_with_ci, iqr_mask.               *)
(* run_all_mem_bench.py holds verbatim copies of the three functions of    *)
(* collect_mem_massif.py.  Critical values are in thousandths.             *)
(***************************************************************************)
\* The dict `table` of t_critical_95: keys 2..30.
table ==
    [d \in 2..30 |->
        <<4303, 3182, 2776, 2571, 2447, 2365, 2306, 2262, 2228, 2201,
          2179, 2160, 2145, 2131, 2120, 2110, 2101, 2093, 2086, 2080,
          2074, 2069, 2064, 2060, 2056, 2052, 2048, 2045, 2042>>[d - 1]]

\* Mutant of t_critical_95: no "df <= 1" case, df = 1 falls to the 2.021 tier.
t_critical_95_no_df1(d) ==
    IF d \in DOMAIN table THEN table[d]
    ELSE IF d <= 40 THEN 2021
    ELSE IF d <= 60 THEN 2000
    ELSE 1960

\* Mutant of t_critical_95: the 2.021 tier reaches up to df = 45.
t_critical_95_tier45(d) ==
    IF d <= 1 THEN 0
    ELSE IF d \in DOMAIN table THEN table[d]
    ELSE IF d <= 45 THEN 2021
    ELSE IF d <= 60 THEN 2000
    ELSE 1960

t_critical_95(d) ==
    IF d <= 1 THEN 0
    ELSE IF d \in DOMAIN table THEN table[d]
    ELSE IF d <= 40 THEN 2021
    ELSE IF d <= 60 THEN 2000
    ELSE 1960

\* Mutant of summary_with_ci: the single-sample case reports the mean as std.
summary_with_ci_std_mean(vals) ==
    LET n == Len(vals)
        m == stats_mean(vals)
    IN  IF Raised(m) THEN m
        ELSE LET mean == m.val IN
             IF n < 2
             THEN Return([mean |-> mean,
                          std |-> Surd(mean, 0, Float(0)),
                          ci_low |-> Surd(mean, 0, Float(0)),
                          ci_high |-> Surd(mean, 0, Float(0))])
             ELSE LET s2 == Variance(vals)
                      t == t_critical_95(n - 1)
                      se2 == RDiv(s2, Float(n))
                  IN  Return([mean |-> mean,
                              std |-> Surd(Float(0), 1000, s2),
                              ci_low |-> Surd(mean, -t, se2),
                              ci_high |-> Surd(mean, t, se2)])

\* Mutant of summary_with_ci: an empty list is summarised as the point 0.
summary_with_ci_empty_point(vals) ==
    LET n == Len(vals)
        mean == IF n = 0 THEN Float(0) ELSE stats_mean(vals).val
    IN  IF n < 2
        THEN Return([mean |-> mean,
                     std |-> Surd(Float(0), 0, Float(0)),
                     ci_low |-> Surd(mean, 0, Float(0)),
                     ci_high |-> Surd(mean, 0, Float(0))])
        ELSE LET s2 == Variance(vals)
                 t == t_critical_95(n - 1)
                 se2 == RDiv(s2, Float(n))
             IN  Return([mean |-> mean,
                         std |-> Surd(Float(0), 1000, s2),
                         ci_low |-> Surd(mean, -t, se2),
                         ci_high |-> Surd(mean, t, se2)])

summary_with_ci(vals) ==
    LET n == Len(vals)
        m == stats_mean(vals)
    IN  IF Raised(m) THEN m
        ELSE LET mean == m.val IN
             IF n < 2
             THEN Return([mean |-> mean,
                          std |-> Surd(Float(0), 0, Float(0)),
                          ci_low |-> Surd(mean, 0, Float(0)),
                          ci_high |-> Surd(mean, 0, Float(0))])
             ELSE LET s2 == Variance(vals)
                      t == t_critical_95(n - 1)
                      se2 == RDiv(s2, Float(n))
                  IN  Return([mean |-> mean,
                              std |-> Surd(Float(0), 1000, s2),
                              ci_low |-> Surd(mean, -t, se2),
                              ci_high |-> Surd(mean, t, se2)])

\* Mutant of iqr_mask: the short-list mask is one entry short.
iqr_mask_short(vals) ==
    LET n == Len(vals) IN
    IF n < 4 THEN AllTrue(n - 1)
    ELSE LET qs == stats_quantiles(vals)
             q1 == qs[1]
             q3 == qs[3]
             iqr == RSub(q3, q1)
             lower == RSub(q1, RMul(Rat(3, 2), iqr))
             upper == RAdd(q3, RMul(Rat(3, 2), iqr))
         IN  [i \in 1..n |-> RLe(lower, vals[i]) /\ RLe(vals[i], upper)]

iqr_mask(vals) ==
    LET n == Len(vals) IN
    IF n < 4 THEN AllTrue(n)
    ELSE LET qs == stats_quantiles(vals)
             q1 == qs[1]
             q3 == qs[3]
             iqr == RSub(q3, q1)
             lower == RSub(q1, RMul(Rat(3, 2), iqr))
             upper == RAdd(q3, RMul(Rat(3, 2), iqr))
         IN  [i \in 1..n |-> RLe(lower, vals[i]) /\ RLe(vals[i], upper)]

\* The copies in run_all_mem_bench.py.
\* Mutant of agg_iqr_mask: no sample is ever dropped.
agg_iqr_mask_keep_all(vals) == AllTrue(Len(vals))

agg_t_critical_95(d) == t_critical_95(d)
agg_summary_with_ci(vals) == summary_with_ci(vals)
agg_iqr_mask(vals) == iqr_mask(vals)

(***************************************************************************)
(* Speed script: T_CRIT_95, percentile, iqr_filter_indices, t_crit_95 and  *)
(* the per-metric estimator inlined in run_benchmarks.                     *)
(***************************************************************************)
NaN == [nan |-> TRUE]

T_CRIT_95 ==
    [d \in 1..30 |->
        <<12706, 4303, 3182, 2776, 2571, 2447, 2365, 2306, 2262, 2228,
          2201, 2179, 2160, 2145, 2131, 2120, 2110, 2101, 2093, 2086,
          2080, 2074, 2069, 2064, 2060, 2056, 2052, 2048, 2045, 2042>>[d]]

percentile(sorted_vals, p) ==
    IF sorted_vals = <<>> THEN NaN
    ELSE IF Len(sorted_vals) = 1 THEN sorted_vals[1]
    ELSE LET k == RMul(Float(Len(sorted_vals) - 1), Rat(p, 100))
             f == RFloor(k)
             c == RCeil(k)
         IN  IF f = c THEN sorted_vals[f + 1]
             ELSE LET d0 == RMul(sorted_vals[f + 1], RSub(Float(c), k))
                      d1 == RMul(sorted_vals[c + 1], RSub(k, Float(f)))
                  IN  RAdd(d0, d1)

\* The positions i of range(n), in order, whose flag keep[i+1] is set.
RECURSIVE Enumerate(_, _)
Enumerate(keep, i) ==
    IF i > Len(keep) THEN <<>>
    ELSE (IF keep[i] THEN <<i - 1>> ELSE <<>>) \o Enumerate(keep, i + 1)

\* The outcome of the float comparisons "lower <= v" and "v <= upper" for a
\* sample v that equals the bound in exact arithmetic, when the samples are
\* not binary fractions: the rounding error of the computed bound decides
\* it ([0.0, 0.1, 0.1, 0.2] yields [1, 2]).  All samples on one bound are
\* the same float, so there is one outcome for each bound.
TieOutcomes == [lower : BOOLEAN, upper : BOOLEAN]

\* lower <= v <= upper in float arithmetic; exact tells whether the bounds
\* were computed without rounding.
FloatWithin(lower, v, upper, tie, exact) ==
    /\ IF lower = v /\ ~exact THEN tie.lower ELSE RLe(lower, v)
    /\ IF v = upper /\ ~exact THEN tie.upper ELSE RLe(v, upper)

\* Mutant of iqr_mask_float: a sample on a bound is never retained.
iqr_mask_float_strict(vals, tie) ==
    LET n == Len(vals) IN
    IF n < 4 THEN AllTrue(n)
    ELSE LET qs == stats_quantiles(vals)
             q1 == qs[1]
             q3 == qs[3]
             iqr == RSub(q3, q1)
             lower == RSub(q1, RMul(Rat(3, 2), iqr))
             upper == RAdd(q3, RMul(Rat(3, 2), iqr))
         IN  [i \in 1..n |->
                 /\ RLe(lower, vals[i]) /\ lower # vals[i]
                 /\ RLe(vals[i], upper) /\ vals[i] # upper]

\* iqr_mask of the memory scripts on any floats: as iqr_mask, but when the
\* samples are not binary fractions the bounds carry a rounding error and
\* the comparison of a sample that lies on a bound goes either way
\* (iqr_mask([0.0, 0.1, 0.1, 0.2]) is [False, True, True, False]).
iqr_mask_float(vals, tie) ==
    LET n == Len(vals) IN
    IF n < 4 THEN AllTrue(n)
    ELSE LET qs == stats_quantiles(vals)
             q1 == qs[1]
             q3 == qs[3]
             iqr == RSub(q3, q1)
             lower == RSub(q1, RMul(Rat(3, 2), iqr))
             upper == RAdd(q3, RMul(Rat(3, 2), iqr))
             exact == \A i \in 1..n : ExactFloat(vals[i])
         IN  [i \in 1..n |-> FloatWithin(lower, vals[i], upper, tie, exact)]

iqr_filter_indices(vals, tie) ==
    LET n == Len(vals) IN
    IF n < 4 THEN range(n)
    ELSE LET sorted_vals == sorted(vals)
             q1 == percentile(sorted_vals, 25)
             q3 == percentile(sorted_vals, 75)
             iqr == RSub(q3, q1)
         IN  IF iqr = Float(0) THEN range(n)
             ELSE LET lower == RSub(q1, RMul(Rat(3, 2), iqr))
                      upper == RAdd(q3, RMul(Rat(3, 2), iqr))
                      exact == \A i \in 1..n : ExactFloat(vals[i])
                  IN  Enumerate([i \in 1..n |->
                          FloatWithin(lower, vals[i], upper, tie, exact)], 1)

t_crit_95(d) ==
    IF d <= 0 THEN NaN
    ELSE IF d \in DOMAIN T_CRIT_95 THEN T_CRIT_95[d]
    ELSE 1960

\* run_benchmarks, lines 185-206, for one metric of a non-empty filtered list.
speed_summary(vals_f) ==
    LET n == Len(vals_f)
        m == stats_mean(vals_f)
    IN  IF Raised(m) THEN m
        ELSE LET mean == m.val IN
             IF n > 1
             THEN LET s2 == Variance(vals_f)
                      tcrit == t_crit_95(n - 1)
                      se2 == RDiv(s2, Float(n))
                  IN  Return([mean |-> mean,
                              std |-> Surd(Float(0), 1000, s2),
                              ci_low |-> Surd(mean, -tcrit, se2),
                              ci_high |-> Surd(mean, tcrit, se2)])
             ELSE Return([mean |-> mean,
                          std |-> Surd(Float(0), 0, Float(0)),
                          ci_low |-> Surd(mean, 0, Float(0)),
                          ci_high |-> Surd(mean, 0, Float(0))])

(***************************************************************************)
(* Strings are sequences of one-character strings.                         *)
(***************************************************************************)
Digits == <<"0", "1", "2", "3", "4", "5", "6", "7", "8", "9">>
IsDigit(c) == \E i \in DOMAIN Digits : Digits[i] = c
IsSpace(c) == c \in {" ", "\t"}
DigitVal(c) == (CHOOSE i \in DOMAIN Digits : Digits[i] = c) - 1

\* str.splitlines(): the pieces between line breaks, no empty last piece.
RECURSIVE SplitAt(_, _, _)
SplitAt(text, i, cur) ==
    IF i > Len(text) THEN (IF cur = <<>> THEN <<>> ELSE <<cur>>)
    ELSE IF text[i] = "\n" THEN <<cur>> \o SplitAt(text, i + 1, <<>>)
    ELSE SplitAt(text, i + 1, Append(cur, text[i]))

splitlines(text) == SplitAt(text, 1, <<>>)

\* str.startswith
startswith(line, prefix) ==
    /\ Len(line) >= Len(prefix)
    /\ \A i \in DOMAIN prefix : line[i] = prefix[i]

\* The decimal value of a run of digits (int() of a regex group of \d+).
RECURSIVE DigitsVal(_)
DigitsVal(ds) ==
    IF ds = <<>> THEN 0
    ELSE DigitsVal(SubSeq(ds, 1, Len(ds) - 1)) * 10 + DigitVal(ds[Len(ds)])

\* str(i) for i >= 0.
RECURSIVE Decimal(_)
Decimal(i) ==
    IF i < 10 THEN <<Digits[i + 1]>>
    ELSE Append(Decimal(i \div 10), Digits[(i % 10) + 1])

\* f"{i:>3d}" for i >= 0: right-justified in at least 3 columns.
Format3d(i) ==
    LET d == Decimal(i)
    IN  [k \in 1..(IF Len(d) < 3 THEN 3 - Len(d) ELSE 0) |-> " "] \o d

PeakWord == <<"(", "p", "e", "a", "k", ")">>

\* re.search(r"(\d+)\s+\(peak\)", line): the leftmost match, group 1.
\* A match starting at i: digits i..j-1, whitespace j..k-1, "(peak)" at k.
MatchAt(line, i) ==
    \E j \in (i + 1)..Len(line) : \E k \in (j + 1)..Len(line) :
        /\ \A x \in i..(j - 1) : IsDigit(line[x])
        /\ \A x \in j..(k - 1) : IsSpace(line[x])
        /\ startswith(SubSeq(line, k, Len(line)), PeakWord)

re_search_peak(line) ==
    LET starts == {i \in DOMAIN line : MatchAt(line, i)}
    IN  IF starts = {} THEN [found |-> FALSE]
        ELSE LET i == CHOOSE a \in starts : \A b \in starts : a <= b
                 j == CHOOSE e \in (i + 1)..Len(line) :
                          /\ \A x \in i..(e - 1) : IsDigit(line[x])
                          /\ ~IsDigit(line[e])
             IN  [found |-> TRUE, group1 |-> SubSeq(line, i, j - 1)]

\* str.replace(",", "")
RECURSIVE RemoveCommas(_)
RemoveCommas(line) ==
    IF line = <<>> THEN <<>>
    ELSE (IF Head(line) = "," THEN <<>> ELSE <<Head(line)>>)
         \o RemoveCommas(Tail(line))

\* str.split(): the maximal runs of non-whitespace characters.
RECURSIVE SplitWs(_, _, _)
SplitWs(line, i, cur) ==
    IF i > Len(line) THEN (IF cur = <<>> THEN <<>> ELSE <<cur>>)
    ELSE IF IsSpace(line[i])
         THEN (IF cur = <<>> THEN <<>> ELSE <<cur>>) \o SplitWs(line, i + 1, <<>>)
         ELSE SplitWs(line, i + 1, Append(cur, line[i]))

split(line) == SplitWs(line, 1, <<>>)

\* int(token) of a token without whitespace: an optional sign, then digits
\* that single underscores may separate; ValueError otherwise.
int(token) ==
    LET signed == token # <<>> /\ token[1] \in {"+", "-"}
        body == IF signed THEN Tail(token) ELSE token
        wellFormed ==
            /\ body # <<>>
            /\ IsDigit(body[1]) /\ IsDigit(body[Len(body)])
            /\ \A i \in DOMAIN body : IsDigit(body[i]) \/ body[i] = "_"
            /\ \A i \in 1..(Len(body) - 1) : ~(body[i] = "_" /\ body[i + 1] = "_")
        digits == SelectSeq(body, IsDigit)
        v == DigitsVal(digits)
    IN  IF ~wellFormed THEN Raise("ValueError")
        ELSE Return(IF signed /\ token[1] = "-" THEN -v ELSE v)

(***************************************************************************)
(* collect_mem_massif.py: parse_ms_print_output                            *)
(***************************************************************************)
RuntimeError(msg) == [exc |-> "RuntimeError", msg |-> msg]

DetailedHeader ==
    <<" ", "D", "e", "t", "a", "i", "l", "e", "d", " ",
      "s", "n", "a", "p", "s", "h", "o", "t", "s", ":", " ", "[">>

\* Mutant of FindPeakIndex: the marker is accepted on any line.
RECURSIVE FindPeakIndex_any_line(_)
FindPeakIndex_any_line(lines) ==
    IF lines = <<>> THEN -1
    ELSE LET m == re_search_peak(Head(lines))
         IN  IF m.found THEN DigitsVal(m.group1)
             ELSE FindPeakIndex_any_line(Tail(lines))

\* Lines 198-203: the first header line that carries a marker sets
\* peak_index; -1 when there is none.
RECURSIVE FindPeakIndex(_)
FindPeakIndex(lines) ==
    IF lines = <<>> THEN -1
    ELSE LET line == Head(lines)
             m == re_search_peak(line)
         IN  IF startswith(line, DetailedHeader) /\ m.found
             THEN DigitsVal(m.group1)
             ELSE FindPeakIndex(Tail(lines))

\* Lines 209-214: the first line that starts with the prefix, or None.
RECURSIVE FindPeakLine(_, _)
FindPeakLine(lines, prefix) ==
    IF lines = <<>> THEN [found |-> FALSE]
    ELSE IF startswith(Head(lines), prefix)
         THEN [found |-> TRUE, line |-> Head(lines)]
         ELSE FindPeakLine(Tail(lines), prefix)

\* Lines 225: list(map(int, tokens[1:6])); the first failing int() raises.
RECURSIVE MapInt(_)
MapInt(tokens) ==
    IF tokens = <<>> THEN Return(<<>>)
    ELSE LET h == int(Head(tokens)) IN
         IF Raised(h) THEN h
         ELSE LET t == MapInt(Tail(tokens)) IN
              IF Raised(t) THEN t ELSE Return(<<h.val>> \o t.val)

parse_ms_print_output(text) ==
    LET lines == splitlines(text)
        peak_index == FindPeakIndex(lines)
    IN  IF peak_index < 0 THEN RuntimeError("no peak snapshot")
        ELSE LET peak == FindPeakLine(lines, Format3d(peak_index)) IN
             IF ~peak.found THEN RuntimeError("no peak line")
             ELSE LET tokens == split(RemoveCommas(peak.line)) IN
                  IF Len(tokens) < 6 THEN RuntimeError("unexpected format")
                  ELSE MapInt(SubSeq(tokens, 2, 6))

(***************************************************************************)
(* Inputs of the pure functions.                                           *)
(***************************************************************************)
\* All sequences over S of length 0 .. n.
BSeq(S, n) == UNION {[1..k -> S] : k \in 0..n}

Samples == 0..MaxSample

\* Sample lists with a far outlier, beside the exhaustive small ones.
ExampleInputs == {<<5, 5, 5, 5, 100>>, <<10, 11, 12, 13, 100>>, <<100, 3, 0, 5, 4>>}

SampleLists == BSeq(Samples, MaxLen) \cup ExampleInputs

\* Lines of ms_print reports: the "Detailed snapshots" header with and
\* without a peak marker, a marker outside the header, snapshot rows.
\* " Detailed snapshots: [1, 2 (peak)]"
HeaderPeak2 ==
    <<" ", "D", "e", "t", "a", "i", "l", "e", "d", " ", "s", "n", "a", "p",
      "s", "h", "o", "t", "s", ":", " ", "[", "1", ",", " ", "2", " ", "(",
      "p", "e", "a", "k", ")", "]">>

\* " Detailed snapshots: [1, 2]"
HeaderNoPeak ==
    <<" ", "D", "e", "t", "a", "i", "l", "e", "d", " ", "s", "n", "a", "p",
      "s", "h", "o", "t", "s", ":", " ", "[", "1", ",", " ", "2", "]">>

\* "n 2 (peak)"
StrayPeak2 ==
    <<"n", " ", "2", " ", "(", "p", "e", "a", "k", ")">>

\* "  2 10 2,048 7 5 3"
Row2 ==
    <<" ", " ", "2", " ", "1", "0", " ", "2", ",", "0", "4", "8", " ", "7",
      " ", "5", " ", "3">>

\* "  1 9 8 7 6 5"
Row1 ==
    <<" ", " ", "1", " ", "9", " ", "8", " ", "7", " ", "6", " ", "5">>

\* "  2 10 20"
Row2Short ==
    <<" ", " ", "2", " ", "1", "0", " ", "2", "0">>

\* "  2 10 x 7 5 3"
Row2BadToken ==
    <<" ", " ", "2", " ", "1", "0", " ", "x", " ", "7", " ", "5", " ", "3">>

ReportLines ==
    {HeaderPeak2, HeaderNoPeak, StrayPeak2, Row2, Row1, Row2Short, Row2BadToken}

\* Lines of a report of more than 100 snapshots whose peak is the
\* snapshot 100: the header, the top line of the graph with the peak size
\* as its label, the row 100.
\* " Detailed snapshots: [9, 100 (peak)]"
HeaderPeak100 ==
    <<" ", "D", "e", "t", "a", "i", "l", "e", "d", " ", "s", "n", "a", "p",
      "s", "h", "o", "t", "s", ":", " ", "[", "9", ",", " ", "1", "0", "0",
      " ", "(", "p", "e", "a", "k", ")", "]">>

\* "100.2^ #"
GraphTop100 ==
    <<"1", "0", "0", ".", "2", "^", " ", "#">>

\* "100 7 8 7 1 0"
Row100 ==
    <<"1", "0", "0", " ", "7", " ", "8", " ", "7", " ", "1", " ", "0">>

LongReportLines == {HeaderPeak100, GraphTop100, Row100}

\* "\n".join(lines) followed by a final line break.
RECURSIVE JoinLines(_)
JoinLines(ls) ==
    IF ls = <<>> THEN <<>> ELSE Head(ls) \o <<"\n">> \o JoinLines(Tail(ls))

Reports ==
    {JoinLines(ls) : ls \in BSeq(ReportLines, MaxLines)}
        \cup {JoinLines(ls) : ls \in BSeq(LongReportLines, MaxLines)}

NoValues == <<>>
NoReport == <<>>
NoRet == [exc |-> "none"]

\* cpu_state before setup_benchmark_cpu_mode has returned: not bound.
Unbound ==
    [affinity_original |-> "unbound", turbo |-> "unbound", governors |-> "unbound"]

\* The pipeline driver does not run: the CPU mode is left alone.
NoDriver ==
    /\ cpu = [root |-> FALSE, affinity |-> "n/a", turbo |-> "absent",
              governor |-> "absent"]
    /\ cpu_state = Unbound
    /\ restore_calls = <<>>

\* No script runs: a single function is applied to an input.
NoProgram ==
    /\ prog = "none"
    /\ pc = "none"
    /\ num_runs = 0
    /\ key = 0
    /\ run = 0
    /\ samples = <<>>
    /\ rows = <<>>
    /\ used_files = <<>>
    /\ fs = {}
    /\ now = 0
    /\ ts = 0
    /\ exc = "none"
    /\ binary = "none"
    /\ log = <<>>
    /\ alive = <<>>
    /\ NoDriver

(***************************************************************************)
(* SpecStats: the outlier filters and the interval estimators applied to   *)
(* a sample list.                                                          *)
(***************************************************************************)
InitStats ==
    /\ values \in SampleLists
    /\ df = 0
    /\ ms_output = NoReport
    /\ call = "none"
    /\ ret = NoRet
    /\ NoProgram

Apply(name, result) ==
    /\ call = "none"
    /\ call' = name
    /\ ret' = result
    /\ UNCHANGED <<values, df, ms_output>>
    /\ UNCHANGED progVars
    /\ UNCHANGED cpuVars

Call_iqr_mask == Apply("iqr_mask", iqr_mask(Floats(values)))
Call_agg_iqr_mask == Apply("agg_iqr_mask", agg_iqr_mask(Floats(values)))
Call_iqr_filter_indices ==
    \E tie \in TieOutcomes :
        Apply("iqr_filter_indices", iqr_filter_indices(Decimals(values), tie))
\* iqr_mask handed samples that are decimal fractions, as float() reads
\* them from the *_mean_mb columns of a CSV that holds means of several
\* measurements.
Call_iqr_mask_decimals ==
    \E tie \in TieOutcomes :
        Apply("iqr_mask decimals", iqr_mask_float(Decimals(values), tie))
Call_summary_with_ci == Apply("summary_with_ci", summary_with_ci(Floats(values)))
Call_agg_summary_with_ci ==
    Apply("agg_summary_with_ci", agg_summary_with_ci(Floats(values)))
Call_speed_summary ==
    values # <<>> /\ Apply("speed_summary", speed_summary(Decimals(values)))

\* agg_summary_with_ci applied again after two neighbouring samples of the
\* list changed places.
Swap(s, i) == [s EXCEPT ![i] = s[i + 1], ![i + 1] = s[i]]

Call_reordered ==
    /\ call \in {"agg_summary_with_ci", "agg_summary_with_ci reordered"}
    /\ \E i \in 1..(Len(values) - 1) :
        /\ values' = Swap(values, i)
        /\ ret' = agg_summary_with_ci(Floats(values'))
    /\ call' = "agg_summary_with_ci reordered"
    /\ UNCHANGED <<df, ms_output>>
    /\ UNCHANGED progVars
    /\ UNCHANGED cpuVars

NextStats ==
    \/ Call_iqr_mask
    \/ Call_iqr_mask_decimals
    \/ Call_agg_iqr_mask
    \/ Call_iqr_filter_indices
    \/ Call_summary_with_ci
    \/ Call_agg_summary_with_ci
    \/ Call_speed_summary
    \/ Call_reordered

SpecStats == InitStats /\ [][NextStats]_vars

(***************************************************************************)
(* SpecCrit: the critical-value lookups applied to a degrees-of-freedom.   *)
(***************************************************************************)
InitCrit ==
    /\ values = NoValues
    /\ df \in 0..MaxDf
    /\ ms_output = NoReport
    /\ call = "none"
    /\ ret = NoRet
    /\ NoProgram

Call_t_critical_95 == Apply("t_critical_95", t_critical_95(df))
Call_agg_t_critical_95 == Apply("agg_t_critical_95", agg_t_critical_95(df))
Call_t_crit_95 == Apply("t_crit_95", t_crit_95(df))

NextCrit ==
    \/ Call_t_critical_95
    \/ Call_agg_t_critical_95
    \/ Call_t_crit_95

SpecCrit == InitCrit /\ [][NextCrit]_vars

(***************************************************************************)
(* SpecParser: parse_ms_print_output applied to a report.                  *)
(***************************************************************************)
InitParser ==
    /\ values = NoValues
    /\ df = 0
    /\ ms_output \in Reports
    /\ call = "none"
    /\ ret = NoRet
    /\ NoProgram

Call_parse_ms_print_output ==
    Apply("parse_ms_print_output", parse_ms_print_output(ms_output))

NextParser == Call_parse_ms_print_output

SpecParser == InitParser /\ [][NextParser]_vars

(***************************************************************************)
(* collect_mem_massif.py: the direct collection of memory samples.         *)
(***************************************************************************)
\* "  2 7 1,048,576 0 0 1,048,576"
RowOneMiB ==
    <<" ", " ", "2", " ", "7", " ", "1", ",", "0", "4", "8", ",", "5", "7",
      "6", " ", "0", " ", "0", " ", "1", ",", "0", "4", "8", ",", "5", "7",
      "6">>

\* "  2 9 2,097,152 1,048,576 0 1,048,576"
RowTwoMiB ==
    <<" ", " ", "2", " ", "9", " ", "2", ",", "0", "9", "7", ",", "1", "5",
      "2", " ", "1", ",", "0", "4", "8", ",", "5", "7", "6", " ", "0", " ",
      "1", ",", "0", "4", "8", ",", "5", "7", "6">>

\* What the two child processes of one measurement ended with: the exit
\* code of valgrind, the exit code of ms_print and the report it printed.
MassifOutcomes ==
    {[valgrind |-> 0, ms_print |-> 0, stdout |-> JoinLines(<<HeaderPeak2, RowOneMiB>>)],
     [valgrind |-> 0, ms_print |-> 0, stdout |-> JoinLines(<<HeaderPeak2, RowTwoMiB>>)],
     [valgrind |-> 0, ms_print |-> 0, stdout |-> JoinLines(<<HeaderNoPeak, RowTwoMiB>>)],
     [valgrind |-> 0, ms_print |-> 1, stdout |-> <<>>],
     [valgrind |-> 1, ms_print |-> 0, stdout |-> <<>>]}

\* Mutant of run_massif_once: a report that cannot be parsed gives a record
\* of zeros instead of an exception.
run_massif_once_partial(proc) ==
    IF proc.valgrind # 0 THEN RuntimeError("valgrind")
    ELSE LET parsed == parse_ms_print_output(proc.stdout) IN
         IF proc.ms_print # 0 \/ Raised(parsed)
         THEN Return([insts |-> 0, maxBytes |-> 0, maxHeap |-> 0,
                      extHeap |-> 0, maxStack |-> 0])
         ELSE Return([insts |-> parsed.val[1],
                      maxBytes |-> parsed.val[2],
                      maxHeap |-> parsed.val[3],
                      extHeap |-> parsed.val[4],
                      maxStack |-> parsed.val[5]])

run_massif_once(proc) ==
    IF proc.valgrind # 0 THEN RuntimeError("valgrind")
    ELSE IF proc.ms_print # 0 THEN RuntimeError("ms_print")
    ELSE LET parsed == parse_ms_print_output(proc.stdout) IN
         IF Raised(parsed) THEN parsed
         ELSE Return([insts |-> parsed.val[1],
                      maxBytes |-> parsed.val[2],
                      maxHeap |-> parsed.val[3],
                      extHeap |-> parsed.val[4],
                      maxStack |-> parsed.val[5]])

\* What a measurement can return or raise.
MassifResults == {run_massif_once(proc) : proc \in MassifOutcomes}

\* What a measurement can return or raise once valgrind has ended with
\* exit code 0.
MsPrintResults ==
    {run_massif_once(proc) : proc \in {p \in MassifOutcomes : p.valgrind = 0}}

Metrics == {"insts", "maxBytes", "maxHeap", "extHeap", "maxStack"}

\* float(x) / (1024.0 * 1024.0)
InMB(x) == RDiv(Float(x), RMul(Float(1024), Float(1024)))

\* The five values appended to the raw lists after one measurement.
RawSample(res) ==
    [insts |-> Float(res.insts),
     maxBytes |-> InMB(res.maxBytes),
     maxHeap |-> InMB(res.maxHeap),
     extHeap |-> InMB(res.extHeap),
     maxStack |-> InMB(res.maxStack)]

\* The raw list of one metric.
Column(smpls, m) == [n \in DOMAIN smpls |-> smpls[n][m]]

\* The mask a caller uses: the filter result, or all raw samples when the
\* filter retains fewer than 3 (n_filt < 3).
GuardedMask(filtered, n_raw) ==
    IF CountTrue(filtered) < 3 THEN AllTrue(n_raw) ELSE filtered

\* The row of a key from the summaries of its five filtered lists, or the
\* exception a summary raised.
RowOf(n_raw, mask, s) ==
    IF \E m \in Metrics : Raised(s[m])
    THEN Raise((CHOOSE r \in {s[m] : m \in Metrics} : Raised(r)).exc)
    ELSE Return([num_runs_raw |-> n_raw,
                 num_runs_filtered |-> CountTrue(mask),
                 summary |-> [m \in Metrics |-> s[m].val]])

\* Mutant of main_row: the instruction counts are summarised unfiltered.
main_row_raw_insts(smpls) ==
    LET n_raw == Len(smpls)
        mask == GuardedMask(iqr_mask(Column(smpls, "maxBytes")), n_raw)
    IN  RowOf(n_raw, mask,
              [m \in Metrics |->
                  summary_with_ci(IF m = "insts" THEN Column(smpls, m)
                                  ELSE ZipFilter(Column(smpls, m), mask))])

\* From the raw lists of a key to its row: the mask over maxBytes, the
\* fallback, the filtered lists and their summaries.
main_row(smpls) ==
    LET n_raw == Len(smpls)
        mask == GuardedMask(iqr_mask(Column(smpls, "maxBytes")), n_raw)
    IN  RowOf(n_raw, mask,
              [m \in Metrics |-> summary_with_ci(ZipFilter(Column(smpls, m), mask))])

operations == <<"keygen", "encaps", "decaps">>

\* The directory and the file-name prefix a script derives from the name
\* of the binary.
results_dir(bin) ==
    IF bin = "speed_kem" THEN "results_speed_kem"
    ELSE IF bin = "test_kem_mem" THEN "results_mem_kem"
    ELSE "results_mem_sig"

csv_prefix(bin) ==
    IF bin = "speed_kem" THEN "results_speed_kem_"
    ELSE IF bin = "test_kem_mem" THEN "results_kem_mem_"
    ELSE "results_sig_mem_"

\* A file the script writes: <results_dir>/<prefix><timestamp>.<ext>,
\* last modified at the time of the write.
File(stamp, ext, content) ==
    [dir |-> results_dir(binary), prefix |-> csv_prefix(binary), ts |-> stamp,
     ext |-> ext, mtime |-> now, content |-> content]

SameName(f, g) ==
    f.dir = g.dir /\ f.prefix = g.prefix /\ f.ts = g.ts /\ f.ext = g.ext

\* open(path, "w") and write: a file of the same name is replaced.
Written(files, f) ==
    {g \in files : ~SameName(g, f)} \cup {f}

\* Mutant of subprocess_run: the child is started and the script goes on
\* from where it is without waiting for its end.
subprocess_run_no_wait(cmd, waiting) ==
    /\ alive' = Append(alive, cmd)
    /\ pc' = pc

\* subprocess.run(cmd): the child is started and the script is suspended,
\* at the position waiting, until the child has ended.
subprocess_run(cmd, waiting) ==
    /\ alive' = Append(alive, cmd)
    /\ pc' = waiting

\* The live children once the child the script waits for has ended.
Ended == SubSeq(alive, 1, Len(alive) - 1)

\* An exception nobody catches ends the script.
Dies(e) ==
    /\ exc' = e
    /\ pc' = "dead"

Main_Start ==
    /\ prog = "collect_mem_massif"
    /\ pc = "start"
    /\ pc' = "collect"
    /\ ts' = now
    /\ key' = 1
    /\ UNCHANGED <<prog, num_runs, run, samples, rows, used_files, fs, now, exc>>
    /\ UNCHANGED <<binary, log, alive>>
    /\ UNCHANGED funcVars
    /\ UNCHANGED cpuVars

\* run_massif_once up to the start of valgrind.
Main_RunMassif ==
    /\ prog = "collect_mem_massif"
    /\ pc = "collect"
    /\ Len(samples) < num_runs
    /\ subprocess_run("valgrind", "valgrind")
    /\ UNCHANGED <<prog, num_runs, key, run, samples, rows, used_files, fs, now, ts,
                   exc, binary, log>>
    /\ UNCHANGED funcVars
    /\ UNCHANGED cpuVars

\* valgrind has ended: a non-zero exit code raises, otherwise ms_print is
\* started on the file valgrind wrote.
Main_ValgrindExit ==
    /\ prog = "collect_mem_massif"
    /\ pc = "valgrind"
    /\ \E proc \in MassifOutcomes :
        IF proc.valgrind # 0
        THEN Dies(run_massif_once(proc).exc) /\ alive' = Ended
        ELSE /\ alive' = Append(Ended, "ms_print")
             /\ pc' = "ms_print"
             /\ UNCHANGED exc
    /\ UNCHANGED <<prog, num_runs, key, run, samples, rows, used_files, fs, now, ts,
                   binary, log>>
    /\ UNCHANGED funcVars
    /\ UNCHANGED cpuVars

\* ms_print has ended: run_massif_once raises or returns the parsed peak,
\* which the collection loop appends to the raw lists.
Main_MsPrintExit ==
    /\ prog = "collect_mem_massif"
    /\ pc = "ms_print"
    /\ alive' = Ended
    /\ \E res \in MsPrintResults :
        IF Raised(res)
        THEN Dies(res.exc) /\ UNCHANGED samples
        ELSE /\ samples' = Append(samples, RawSample(res.val))
             /\ pc' = "collect"
             /\ UNCHANGED exc
    /\ UNCHANGED <<prog, num_runs, key, run, rows, used_files, fs, now, ts,
                   binary, log>>
    /\ UNCHANGED funcVars
    /\ UNCHANGED cpuVars

Main_Summarise ==
    /\ prog = "collect_mem_massif"
    /\ pc = "collect"
    /\ Len(samples) >= num_runs
    /\ LET row == main_row(samples) IN
       IF Raised(row)
       THEN Dies(row.exc) /\ UNCHANGED <<samples, rows, key>>
       ELSE /\ rows' = Append(rows, row.val)
            /\ samples' = <<>>
            /\ key' = key + 1
            /\ pc' = IF key = Len(operations) THEN "write_csv" ELSE "collect"
            /\ UNCHANGED exc
    /\ UNCHANGED <<prog, num_runs, run, used_files, fs, now, ts>>
    /\ UNCHANGED <<binary, log, alive>>
    /\ UNCHANGED funcVars
    /\ UNCHANGED cpuVars

Main_WriteCsv ==
    /\ prog = "collect_mem_massif"
    /\ pc = "write_csv"
    /\ fs' = Written(fs, File(ts, "csv", rows))
    /\ pc' = "write_json"
    /\ UNCHANGED <<prog, num_runs, key, run, samples, rows, used_files, now, ts, exc>>
    /\ UNCHANGED <<binary, log, alive>>
    /\ UNCHANGED funcVars
    /\ UNCHANGED cpuVars

Main_WriteJson ==
    /\ prog = "collect_mem_massif"
    /\ pc = "write_json"
    /\ fs' = Written(fs, File(ts, "json", rows))
    /\ pc' = "done"
    /\ UNCHANGED <<prog, num_runs, key, run, samples, rows, used_files, now, ts, exc>>
    /\ UNCHANGED <<binary, log, alive>>
    /\ UNCHANGED funcVars
    /\ UNCHANGED cpuVars

(***************************************************************************)
(* run_all_mem_bench.py: for the KEM binary and then for the SIG binary,  *)
(* one child process of collect_mem_massif.py -n 1 for each repetition,    *)
(* then the aggregation of the files they wrote.                           *)
(***************************************************************************)
\* The measurements of one child: one result for each operation.
ChildRuns == {[k \in DOMAIN operations |-> res] : res \in MassifResults}

\* The rows a child started with -n 1 computes, one for each operation, or
\* the exception it dies of.
child_rows(res) ==
    IF \E k \in DOMAIN res : Raised(res[k])
    THEN Raise((CHOOSE r \in {res[k] : k \in DOMAIN res} : Raised(r)).exc)
    ELSE Return([k \in DOMAIN res |-> main_row(<<RawSample(res[k].val)>>).val])

\* How a child can end.
ChildResults == {child_rows(res) : res \in ChildRuns}

\* Mutant of SortedByMtime: the oldest file comes first.
RECURSIVE SortedByMtime_oldest_first(_)
SortedByMtime_oldest_first(files) ==
    IF files = {} THEN <<>>
    ELSE LET oldest == CHOOSE f \in files : \A g \in files : f.mtime <= g.mtime
         IN  <<oldest>> \o SortedByMtime_oldest_first(files \ {oldest})

\* sorted(glob(prefix*.csv), key=getmtime, reverse=True)
RECURSIVE SortedByMtime(_)
SortedByMtime(files) ==
    IF files = {} THEN <<>>
    ELSE LET newest == CHOOSE f \in files : \A g \in files : g.mtime <= f.mtime
         IN  <<newest>> \o SortedByMtime(files \ {newest})

\* Mutant of Take: the last of the available files is left out when
\* fewer than n exist.
Take_one_less(lst, n) == SubSeq(lst, 1, IF n < Len(lst) THEN n ELSE Len(lst) - 1)

\* lst[:n] for n >= 0
Take(lst, n) == SubSeq(lst, 1, IF n < Len(lst) THEN n ELSE Len(lst))

\* Mutant of RowSample: the num_runs_raw column is read instead of the
\* *_mean columns.
RowSample_num_runs(row) == [m \in Metrics |-> Float(row.num_runs_raw)]

\* The sample a CSV row contributes: its *_mean columns read back.  The
\* text of a float is its shortest representation, which float() reads
\* back to the same float.
RowSample(row) == [m \in Metrics |-> row.summary[m].mean]

\* data[key] after the read loop over the selected files.
RECURSIVE ReadFiles(_, _)
ReadFiles(files, k) ==
    IF files = <<>> THEN <<>>
    ELSE (IF k \in DOMAIN Head(files).content
          THEN <<RowSample(Head(files).content[k])>>
          ELSE <<>>) \o ReadFiles(Tail(files), k)

\* The keys of data: the rows of a file are its operations in their order.
DataKeys(files) == UNION {DOMAIN files[n].content : n \in DOMAIN files}

aggregate_row(metrics) ==
    LET n_raw == Len(metrics)
        mask == GuardedMask(agg_iqr_mask(Column(metrics, "maxBytes")), n_raw)
    IN  RowOf(n_raw, mask,
              [m \in Metrics |-> agg_summary_with_ci(ZipFilter(Column(metrics, m), mask))])

\* How far the clock moves before a timestamp is taken.
Elapsed == {0, 1}

\* The binaries main hands to run_collect, in their order.
Binaries == <<"test_kem_mem", "test_sig_mem">>

\* print(...): the tag of the message is appended to what was printed.
Printed(msg) == log' = Append(log, msg)

\* Mutant of ReturnsToMain: the batch script ends after the first binary.
ReturnsToMain_ends == pc' = "done" /\ UNCHANGED binary

\* Mutant of ReturnsToMain: run_collect goes on with its loop.
ReturnsToMain_goes_on == pc' = "children" /\ UNCHANGED binary

\* run_collect returns to main, which calls it for the next binary or ends.
ReturnsToMain ==
    LET k == CHOOSE n \in DOMAIN Binaries : Binaries[n] = binary
    IN  IF k < Len(Binaries)
        THEN pc' = "start" /\ binary' = Binaries[k + 1]
        ELSE pc' = "done" /\ UNCHANGED binary

\* The head of run_collect: a missing binary is skipped with a warning, a
\* missing collector script ends the batch script with sys.exit(1).
Collect_Start ==
    /\ prog = "run_all_mem_bench"
    /\ pc = "start"
    /\ \E binary_found \in BOOLEAN, script_found \in BOOLEAN :
        IF ~binary_found
        THEN Printed("[WARN] binary") /\ ReturnsToMain /\ UNCHANGED exc
        ELSE IF ~script_found
        THEN Printed("[ERROR] script") /\ Dies("SystemExit") /\ UNCHANGED binary
        ELSE pc' = "children" /\ UNCHANGED <<binary, log, exc>>
    /\ run' = 0
    /\ samples' = <<>>
    /\ rows' = <<>>
    /\ used_files' = <<>>
    /\ UNCHANGED <<prog, num_runs, key, fs, now, ts, alive>>
    /\ UNCHANGED funcVars
    /\ UNCHANGED cpuVars

\* One iteration of the loop of run_collect, up to the start of the child:
\* subprocess.run starts the collector, which takes its timestamp.
Collect_Child ==
    /\ prog = "run_all_mem_bench"
    /\ pc = "children"
    /\ run < num_runs
    /\ subprocess_run("collect_mem_massif.py", "child")
    /\ \E d \in Elapsed :
        /\ now' = now + d
        /\ ts' = now + d
    /\ UNCHANGED <<prog, num_runs, key, run, samples, rows, used_files, fs, exc,
                   binary, log>>
    /\ UNCHANGED funcVars
    /\ UNCHANGED cpuVars

\* subprocess.run returns when the child has ended: with its two files
\* written and exit code 0, or with an exit code that ends run_collect.
Collect_ChildExit ==
    /\ prog = "run_all_mem_bench"
    /\ pc = "child"
    /\ alive' = Ended
    /\ \E child \in ChildResults :
        IF Raised(child)
        THEN /\ Printed("[ERROR] child")
             /\ ReturnsToMain
             /\ UNCHANGED <<fs, run>>
        ELSE /\ fs' = Written(Written(fs, File(ts, "csv", child.val)),
                              File(ts, "json", child.val))
             /\ run' = run + 1
             /\ pc' = "children"
             /\ UNCHANGED <<binary, log>>
    /\ UNCHANGED <<prog, num_runs, key, samples, rows, used_files, now, ts, exc>>
    /\ UNCHANGED funcVars
    /\ UNCHANGED cpuVars

\* glob(<results_dir>/<prefix>*.csv)
Glob(files, dir, prefix) ==
    {f \in files : f.dir = dir /\ f.prefix = prefix /\ f.ext = "csv"}

\* aggregate_mem_results up to the computed rows.
Aggregate_Rows ==
    /\ prog = "run_all_mem_bench"
    /\ pc = "children"
    /\ run >= num_runs
    /\ LET csv_files ==
               SortedByMtime(Glob(fs, results_dir(binary), csv_prefix(binary)))
       IN  IF csv_files = <<>>
           THEN /\ Printed("[WARN] no csv")
                /\ ReturnsToMain
                /\ UNCHANGED <<used_files, samples, rows, exc>>
           ELSE LET used == Take(csv_files, num_runs)
                    data == [k \in DataKeys(used) |-> ReadFiles(used, k)]
                IN  /\ used_files' = used
                    /\ log' = IF Len(used) < num_runs
                              THEN Append(log, "[WARN] fewer")
                              ELSE log
                    /\ \E read \in {"read", "OSError"} :
                        IF read = "OSError"
                        THEN Dies("OSError") /\ UNCHANGED <<samples, rows>>
                        ELSE /\ samples' = data
                             /\ rows' = [k \in DOMAIN data |->
                                            aggregate_row(data[k]).val]
                             /\ pc' = "write_final"
                             /\ UNCHANGED exc
                    /\ UNCHANGED binary
    /\ UNCHANGED <<prog, num_runs, key, run, fs, now, ts, alive>>
    /\ UNCHANGED funcVars
    /\ UNCHANGED cpuVars

\* Mutant of Aggregate_Write: the selected CSVs are removed before the
\* final CSV is opened.
Aggregate_Write_after_removal ==
    /\ prog = "run_all_mem_bench"
    /\ pc = "write_final"
    /\ \E d \in Elapsed :
        /\ now' = now + d
        /\ ts' = now + d
        /\ \E written \in {"written", "open OSError", "write OSError"} :
            LET left == {f \in fs : \A n \in DOMAIN used_files :
                                       ~SameName(f, used_files[n])}
            IN  IF written = "written"
                THEN /\ fs' = Written(left, [File(now + d, "csv", rows)
                                                EXCEPT !.mtime = now + d])
                     /\ Printed("[OK] final")
                     /\ pc' = "delete"
                     /\ UNCHANGED exc
                ELSE /\ fs' = IF written = "open OSError" THEN left
                              ELSE Written(left, [File(now + d, "csv", <<>>)
                                                     EXCEPT !.mtime = now + d])
                     /\ Dies("OSError")
                     /\ UNCHANGED log
    /\ UNCHANGED <<prog, num_runs, key, run, samples, rows, used_files,
                   binary, alive>>
    /\ UNCHANGED funcVars
    /\ UNCHANGED cpuVars

\* The final CSV: its name is taken from the clock and it is opened for
\* writing, which replaces a file of that name, and the rows are written.
\* An OSError of open leaves the directory as it was, an OSError of a
\* write leaves the file without its rows; either ends the script.
Aggregate_Write ==
    /\ prog = "run_all_mem_bench"
    /\ pc = "write_final"
    /\ \E d \in Elapsed :
        /\ now' = now + d
        /\ ts' = now + d
        /\ \E written \in {"written", "open OSError", "write OSError"} :
            IF written = "written"
            THEN /\ fs' = Written(fs, [File(now + d, "csv", rows)
                                          EXCEPT !.mtime = now + d])
                 /\ Printed("[OK] final")
                 /\ pc' = "delete"
                 /\ UNCHANGED exc
            ELSE /\ fs' = IF written = "open OSError" THEN fs
                          ELSE Written(fs, [File(now + d, "csv", <<>>)
                                               EXCEPT !.mtime = now + d])
                 /\ Dies("OSError")
                 /\ UNCHANGED log
    /\ UNCHANGED <<prog, num_runs, key, run, samples, rows, used_files,
                   binary, alive>>
    /\ UNCHANGED funcVars
    /\ UNCHANGED cpuVars

\* How the removal of one selected file can go: both files removed, or an
\* OSError of the os.remove of the CSV or of the JSON.
RemoveOutcomes == {"removed", "csv OSError", "json OSError"}

\* Mutant of AfterRemoval: the first failed os.remove ends the removal
\* loop, the files selected after it are left.
AfterRemoval_stops(files, used, outcome) ==
    {f \in files :
        ~\E n \in DOMAIN used :
            /\ \A i \in 1..(n - 1) : outcome[i] = "removed"
            /\ f.dir = used[n].dir /\ f.prefix = used[n].prefix /\ f.ts = used[n].ts
            /\ \/ f.ext = "csv" /\ outcome[n] # "csv OSError"
               \/ f.ext = "json" /\ outcome[n] = "removed"}

\* The files left by the removal loop: of each selected name the CSV is
\* removed unless its os.remove failed, and the JSON of the same base name
\* unless one of the two failed.
AfterRemoval(files, used, outcome) ==
    {f \in files :
        ~\E n \in DOMAIN used :
            /\ f.dir = used[n].dir /\ f.prefix = used[n].prefix /\ f.ts = used[n].ts
            /\ \/ f.ext = "csv" /\ outcome[n] # "csv OSError"
               \/ f.ext = "json" /\ outcome[n] = "removed"}

\* The warnings of the removal loop, in the order of the selected files.
RECURSIVE RemovalWarnings(_, _)
RemovalWarnings(outcome, n) ==
    IF n > Len(outcome) THEN <<>>
    ELSE (IF outcome[n] = "removed" THEN <<>> ELSE <<"[WARN] remove">>)
         \o RemovalWarnings(outcome, n + 1)

\* The removal loop: each selected CSV and the JSON of the same name.
Aggregate_Delete ==
    /\ prog = "run_all_mem_bench"
    /\ pc = "delete"
    /\ \E outcome \in [DOMAIN used_files -> RemoveOutcomes] :
        /\ Cardinality({n \in DOMAIN outcome : outcome[n] # "removed"})
               <= MaxRemoveErrors
        /\ fs' = AfterRemoval(fs, used_files, outcome)
        /\ log' = log \o RemovalWarnings(outcome, 1) \o <<"[OK] removed">>
    /\ ReturnsToMain
    /\ UNCHANGED <<prog, num_runs, key, run, samples, rows, used_files, now, ts, exc,
                   alive>>
    /\ UNCHANGED funcVars
    /\ UNCHANGED cpuVars

(***************************************************************************)
(* SpecAggregate: aggregate_mem_results applied to a results directory.    *)
(***************************************************************************)
\* What one measurement of a peak of mb MiB reports, in bytes.
Measured(mb, insts) ==
    [insts |-> insts, maxBytes |-> mb * 1048576, maxHeap |-> mb * 1048576,
     extHeap |-> 0, maxStack |-> insts * 1048576]

\* The rows of the CSV of a child whose measurements all report m.
SingleRunRows(m) == child_rows([k \in DOMAIN operations |-> Return(m)]).val

\* The peaks, in MiB, of five single-run artifacts, oldest first.
ExampleMaxBytes == <<10, 11, 12, 13, 100>>

\* The i-th artifact of a KEM batch: written in second i.
Artifact(i, ext) ==
    [dir |-> results_dir(Binaries[1]), prefix |-> csv_prefix(Binaries[1]),
     ts |-> i, ext |-> ext, mtime |-> i,
     content |-> SingleRunRows(Measured(ExampleMaxBytes[i], i))]

\* Files no pass over the KEM prefix selects: a CSV and a JSON with another
\* prefix, and a JSON with the prefix that has no CSV.
OtherFiles ==
    {[dir |-> results_dir(Binaries[1]), prefix |-> "notes_", ts |-> 1,
      ext |-> "csv", mtime |-> 1, content |-> <<>>],
     [dir |-> results_dir(Binaries[1]), prefix |-> "notes_", ts |-> 1,
      ext |-> "json", mtime |-> 1, content |-> <<>>],
     [dir |-> results_dir(Binaries[1]), prefix |-> csv_prefix(Binaries[1]),
      ts |-> 0, ext |-> "json", mtime |-> 0, content |-> <<>>]}

\* The results directories handed to the aggregation: the other files and
\* any of the five artifacts, each with its CSV and its JSON.
Directories ==
    {OtherFiles \cup {Artifact(i, ext) : i \in S, ext \in {"csv", "json"}} :
        S \in SUBSET DOMAIN ExampleMaxBytes}

InitAggregate ==
    /\ values = NoValues
    /\ df = 0
    /\ ms_output = NoReport
    /\ call = "none"
    /\ ret = NoRet
    /\ prog = "run_all_mem_bench"
    /\ pc = "children"
    /\ num_runs \in 0..MaxLen
    /\ key = 0
    /\ run = num_runs
    /\ samples = <<>>
    /\ rows = <<>>
    /\ used_files = <<>>
    /\ fs \in Directories
    /\ now = Len(ExampleMaxBytes)
    /\ ts = 0
    /\ exc = "none"
    /\ binary \in {Binaries[k] : k \in DOMAIN Binaries}
    /\ log = <<>>
    /\ alive = <<>>
    /\ NoDriver

NextAggregate ==
    \/ Aggregate_Rows
    \/ Aggregate_Write
    \/ Aggregate_Delete

SpecAggregate == InitAggregate /\ [][NextAggregate]_vars

(***************************************************************************)
(* SpecBatch: the batch script started on results directories that an      *)
(* earlier run of it has left.                                             *)
(***************************************************************************)
\* What an earlier run leaves in the KEM directory: the artifact of a
\* child of a batch that a later child aborted, or the final summary of a
\* completed pass over two artifacts.  Both were written in second 0.
LeftDirectories ==
    {{[Artifact(1, ext) EXCEPT !.ts = 0, !.mtime = 0] : ext \in {"csv", "json"}},
     {[Artifact(1, "csv") EXCEPT
          !.ts = 0, !.mtime = 0,
          !.content = [k \in DOMAIN operations |->
                          aggregate_row(<<RowSample(Artifact(1, "csv").content[k]),
                                          RowSample(Artifact(2, "csv").content[k])>>).val]]}}

InitBatch ==
    /\ values = NoValues
    /\ df = 0
    /\ ms_output = NoReport
    /\ call = "none"
    /\ ret = NoRet
    /\ prog = "run_all_mem_bench"
    /\ pc = "start"
    /\ num_runs \in 0..MaxBatchRuns
    /\ key = 0
    /\ run = 0
    /\ samples = <<>>
    /\ rows = <<>>
    /\ used_files = <<>>
    /\ fs \in LeftDirectories
    /\ now = 1
    /\ ts = 0
    /\ exc = "none"
    /\ binary = Binaries[1]
    /\ log = <<>>
    /\ alive = <<>>
    /\ NoDriver

NextBatch ==
    \/ Collect_Start
    \/ Collect_Child
    \/ Collect_ChildExit
    \/ Aggregate_Rows
    \/ Aggregate_Write
    \/ Aggregate_Delete

SpecBatch == InitBatch /\ [][NextBatch]_vars

(***************************************************************************)
(* run_speed_kem_benchmark.py: repeated runs of speed_kem for an           *)
(* algorithm, then one summary row for each operation.                     *)
(***************************************************************************)
OPERATIONS == <<"keygen", "encaps", "decaps">>

\* A line "<op> | <iterations> | <total> | <time_us> | ... | <cycles> | ..."
\* of the output of speed_kem.  The two times are printed with one
\* decimal and given in tenths; fields is the number of columns after the
\* operation.
OpLine(op, fields, time_us) ==
    [op |-> op, fields |-> fields, iterations |-> 10, total_time_s |-> 30,
     time_us |-> time_us, cycles |-> 100 * time_us]

SpeedOutput(keygen, encaps, decaps) ==
    <<OpLine("keygen", 6, keygen), OpLine("encaps", 6, encaps),
      OpLine("decaps", 6, decaps)>>

\* What a run of speed_kem ended with: its exit code and its output.
SpeedOutcomes ==
    {[returncode |-> 0, stdout |-> SpeedOutput(0, 5, 1)],
     [returncode |-> 0, stdout |-> SpeedOutput(1, 5, 1)],
     [returncode |-> 0, stdout |-> SpeedOutput(2, 5, 30)],
     [returncode |-> 0, stdout |-> <<OpLine("keygen", 6, 1), OpLine("encaps", 5, 5),
                                     OpLine("decaps", 6, 1)>>],
     [returncode |-> 1, stdout |-> <<>>]}

\* ops after the loop over the lines: a later line of an operation
\* replaces an earlier one, a line with fewer than 6 columns is skipped.
RECURSIVE parse_speed_kem_output(_)
parse_speed_kem_output(lines) ==
    IF lines = <<>> THEN <<>>
    ELSE LET line == lines[Len(lines)]
             before == parse_speed_kem_output(SubSeq(lines, 1, Len(lines) - 1))
         IN  IF line.fields < 6 THEN before
             ELSE [o \in DOMAIN before \cup {line.op} |->
                      IF o = line.op
                      THEN [iterations |-> Float(line.iterations),
                            total_time_s |-> Rat(line.total_time_s, 10),
                            time_us_mean |-> Rat(line.time_us, 10),
                            cycles_mean |-> Float(line.cycles)]
                      ELSE before[o]]

\* The row of one operation: the filter over time_us, the fallback of the
\* caller, the filtered lists and their statistics.
speed_row(smpls, tie) ==
    LET time_vals == Column(smpls, "time_us_mean")
        n_raw == Len(time_vals)
        filtered == iqr_filter_indices(time_vals, tie)
        keep_idx == IF filtered = <<>> THEN range(n_raw) ELSE filtered
        time_s == speed_summary(Pick(time_vals, keep_idx))
        cycles_s == speed_summary(Pick(Column(smpls, "cycles_mean"), keep_idx))
    IN  [n_raw |-> n_raw,
         n_used |-> Len(keep_idx),
         mean_iterations |-> stats_mean(Pick(Column(smpls, "iterations"), keep_idx)).val,
         mean_total_time_s |-> stats_mean(Pick(Column(smpls, "total_time_s"), keep_idx)).val,
         time_us |-> time_s.val,
         cycles |-> cycles_s.val]

Speed_Start ==
    /\ prog = "run_speed_kem_benchmark"
    /\ pc = "start"
    /\ pc' = "runs"
    /\ ts' = now
    /\ run' = 0
    /\ samples' = [k \in DOMAIN OPERATIONS |-> <<>>]
    /\ UNCHANGED <<prog, num_runs, key, rows, used_files, fs, now, exc>>
    /\ UNCHANGED <<binary, log, alive>>
    /\ UNCHANGED funcVars
    /\ UNCHANGED cpuVars

\* One iteration of the loop over the repetitions.
Speed_Run ==
    /\ prog = "run_speed_kem_benchmark"
    /\ pc = "runs"
    /\ run < num_runs
    /\ subprocess_run("speed_kem", "run")
    /\ UNCHANGED <<prog, num_runs, key, run, samples, rows, used_files, fs, now, ts,
                   exc, binary, log>>
    /\ UNCHANGED funcVars
    /\ UNCHANGED cpuVars

\* Mutant of Speed_RunExit: a run with a missing operation adds the
\* samples of the operations it reported.
Speed_RunExit_partial ==
    /\ prog = "run_speed_kem_benchmark"
    /\ pc = "run"
    /\ alive' = Ended
    /\ pc' = "runs"
    /\ run' = run + 1
    /\ \E proc \in SpeedOutcomes :
        LET ops == parse_speed_kem_output(proc.stdout)
        IN  IF proc.returncode # 0
            THEN UNCHANGED samples
            ELSE samples' = [k \in DOMAIN OPERATIONS |->
                                IF OPERATIONS[k] \in DOMAIN ops
                                THEN Append(samples[k], ops[OPERATIONS[k]])
                                ELSE samples[k]]
    /\ UNCHANGED <<prog, num_runs, key, rows, used_files, fs, now, ts, exc>>
    /\ UNCHANGED <<binary, log>>
    /\ UNCHANGED funcVars
    /\ UNCHANGED cpuVars

\* speed_kem has ended: a failed run or a run with a missing operation is
\* left out, the others add one sample to the lists of each operation.
Speed_RunExit ==
    /\ prog = "run_speed_kem_benchmark"
    /\ pc = "run"
    /\ alive' = Ended
    /\ pc' = "runs"
    /\ run' = run + 1
    /\ \E proc \in SpeedOutcomes :
        LET ops == parse_speed_kem_output(proc.stdout)
            missing_ops == {k \in DOMAIN OPERATIONS : OPERATIONS[k] \notin DOMAIN ops}
        IN  IF proc.returncode # 0 \/ missing_ops # {}
            THEN UNCHANGED samples
            ELSE samples' = [k \in DOMAIN OPERATIONS |->
                                Append(samples[k], ops[OPERATIONS[k]])]
    /\ UNCHANGED <<prog, num_runs, key, rows, used_files, fs, now, ts, exc>>
    /\ UNCHANGED <<binary, log>>
    /\ UNCHANGED funcVars
    /\ UNCHANGED cpuVars

\* The rows of the operations from the k-th on that have samples, for
\* every outcome of the comparisons on the bounds.
RECURSIVE SpeedRows(_, _)
SpeedRows(stats, k) ==
    IF k > Len(stats) THEN {<<>>}
    ELSE IF Len(stats[k]) = 0 THEN SpeedRows(stats, k + 1)
    ELSE {<<row>> \o rest : row \in {speed_row(stats[k], tie) : tie \in TieOutcomes},
                            rest \in SpeedRows(stats, k + 1)}

Speed_Summarise ==
    /\ prog = "run_speed_kem_benchmark"
    /\ pc = "runs"
    /\ run >= num_runs
    /\ rows' \in SpeedRows(samples, 1)
    /\ pc' = "write"
    /\ UNCHANGED <<prog, num_runs, key, run, samples, used_files, fs, now, ts, exc>>
    /\ UNCHANGED <<binary, log, alive>>
    /\ UNCHANGED funcVars
    /\ UNCHANGED cpuVars

Speed_Write ==
    /\ prog = "run_speed_kem_benchmark"
    /\ pc = "write"
    /\ fs' = Written(fs, File(ts, "csv", rows))
    /\ pc' = "done"
    /\ UNCHANGED <<prog, num_runs, key, run, samples, rows, used_files, now, ts, exc>>
    /\ UNCHANGED <<binary, log, alive>>
    /\ UNCHANGED funcVars
    /\ UNCHANGED cpuVars

(***************************************************************************)
(* Spec: one of the three scripts runs from its start to its end.          *)
(***************************************************************************)
Programs == {"collect_mem_massif", "run_all_mem_bench", "run_speed_kem_benchmark"}

\* The binary a script starts with: the positional argument of the
\* collector, the first binary of the batch script, the speed executable.
FirstBinary(p) ==
    IF p = "run_speed_kem_benchmark" THEN "speed_kem"
    ELSE IF p = "run_all_mem_bench" THEN Binaries[1]
    ELSE "test_kem_mem"

Init ==
    /\ values = NoValues
    /\ df = 0
    /\ ms_output = NoReport
    /\ call = "none"
    /\ ret = NoRet
    /\ prog \in Programs
    /\ pc = "start"
    /\ num_runs \in 0..(IF prog = "run_all_mem_bench" THEN MaxBatchRuns ELSE MaxRuns)
    /\ key = 0
    /\ run = 0
    /\ samples = <<>>
    /\ rows = <<>>
    /\ used_files = <<>>
    /\ fs = {}
    /\ now = 0
    /\ ts = 0
    /\ exc = "none"
    /\ binary = FirstBinary(prog)
    /\ log = <<>>
    /\ alive = <<>>
    /\ NoDriver

Next ==
    \/ Main_Start
    \/ Main_RunMassif
    \/ Main_ValgrindExit
    \/ Main_MsPrintExit
    \/ Main_Summarise
    \/ Main_WriteCsv
    \/ Main_WriteJson
    \/ Collect_Start
    \/ Collect_Child
    \/ Collect_ChildExit
    \/ Aggregate_Rows
    \/ Aggregate_Write
    \/ Aggregate_Delete
    \/ Speed_Start
    \/ Speed_Run
    \/ Speed_RunExit
    \/ Speed_Summarise
    \/ Speed_Write

Spec == Init /\ [][Next]_vars

(***************************************************************************)
(* execute_benchmark.py: the pipeline driver.  It prepares the virtual     *)
(* environment and the build, sets the CPU mode for measuring, runs the    *)
(* five scripts of the pipeline and restores the CPU mode.                 *)
(***************************************************************************)
\* The commands run_cmd is called with before the CPU mode is set: by
\* ensure_venv, for the clone and for the build.
Prepare ==
    <<"python -m venv", "pip install --upgrade pip",
      "pip install matplotlib pandas", "git clone", "cmake", "ninja">>

\* The commands run_cmd is called with inside the try block.
Steps ==
    <<"run_speed_kem_benchmark.py", "run_speed_sig_benchmark.py",
      "run_all_mem_bench.py", "mem_kem_chart.py", "mem_sig_chart.py">>

Commands == Prepare \o Steps

Pos(cmd) == CHOOSE k \in DOMAIN Commands : Commands[k] = cmd

\* Where main goes once the virtual environment is active: to the clone
\* when there is no liboqs directory, to cmake when needs_build, and to
\* the set-up of the CPU mode otherwise.
MainInVenv == {Pos("git clone"), Pos("cmake"), Pos(Steps[1])}

\* The commands that can follow command k (0: the start of the script).
\* After the last command of ensure_venv os.execve starts the script again
\* with the virtual environment active.
NextCommands(k) ==
    IF k = 0 THEN {Pos(Prepare[1])} \cup MainInVenv
    ELSE IF Commands[k] = "pip install matplotlib pandas" THEN MainInVenv
    ELSE {k + 1}

\* main goes on to command k: past the last one it leaves the try block,
\* and before the first of the pipeline it sets the CPU mode.
GoesTo(k) ==
    /\ key' = k
    /\ pc' = IF k > Len(Commands) THEN "finally"
             ELSE IF k = Pos(Steps[1]) THEN "setup"
             ELSE "run"

\* run_cmd once the command has ended with return code rc.
run_cmd(rc) ==
    IF rc # 0 THEN Raise("SystemExit") ELSE Return("None")

\* The CPU modes the driver can find: whether it runs as root, whether the
\* platform has sched_getaffinity, the turbo file and the governor files.
CpuModes ==
    [root : BOOLEAN, affinity : {"all", "n/a"}, turbo : {"on", "off", "absent"},
     governor : {"ondemand", "performance", "absent"}]

\* setup_benchmark_cpu_mode on the machine m: the state it returns and the
\* CPU mode it leaves.  pinned: sched_setaffinity succeeds; writable: the
\* writes to the turbo and governor files are permitted.
setup_benchmark_cpu_mode(m, pinned, writable) ==
    LET pins == m.affinity # "n/a" /\ pinned
        affinity_original == IF pins THEN m.affinity ELSE "None"
        turbo == IF m.root /\ m.turbo # "absent" THEN m.turbo ELSE "None"
        governors == IF m.root /\ m.governor # "absent" THEN m.governor ELSE "{}"
    IN  [state |-> [affinity_original |-> affinity_original, turbo |-> turbo,
                    governors |-> governors],
         cpu |-> [root |-> m.root,
                  affinity |-> IF pins THEN "one" ELSE m.affinity,
                  turbo |-> IF turbo # "None" /\ writable THEN "off" ELSE m.turbo,
                  governor |-> IF governors # "{}" /\ writable
                               THEN "performance" ELSE m.governor]]

\* restore_benchmark_cpu_mode(state) on the machine m: the CPU mode it
\* leaves.
restore_benchmark_cpu_mode(m, state, pinned, writable) ==
    [root |-> m.root,
     affinity |-> IF state.affinity_original # "None" /\ pinned
                  THEN state.affinity_original ELSE m.affinity,
     turbo |-> IF m.root /\ state.turbo # "None" /\ writable
               THEN state.turbo ELSE m.turbo,
     governor |-> IF m.root /\ state.governors # "{}" /\ writable
                  THEN state.governors ELSE m.governor]

\* Mutant of Unwinds: the exception ends the script where it is raised.
Unwinds_no_finally(e) == Dies(e)

\* An exception raised by a command: inside the try block the finally
\* clause runs before the exception ends the script.
Unwinds(e) ==
    IF key > Len(Prepare)
    THEN exc' = e /\ pc' = "finally"
    ELSE Dies(e)

Exec_Start ==
    /\ prog = "execute_benchmark"
    /\ pc = "start"
    /\ \E k \in NextCommands(0) : GoesTo(k)
    /\ UNCHANGED <<prog, num_runs, run, samples, rows, used_files, fs, now, ts, exc>>
    /\ UNCHANGED <<binary, log, alive>>
    /\ UNCHANGED funcVars
    /\ UNCHANGED cpuVars

\* run_cmd up to the start of the command.
Exec_RunCmd ==
    /\ prog = "execute_benchmark"
    /\ pc = "run"
    /\ subprocess_run(Commands[key], "wait")
    /\ UNCHANGED <<prog, num_runs, key, run, samples, rows, used_files, fs, now, ts,
                   exc, binary, log>>
    /\ UNCHANGED funcVars
    /\ UNCHANGED cpuVars

\* The command has ended, or Ctrl+C has ended the wait for it.
Exec_CmdExit ==
    /\ prog = "execute_benchmark"
    /\ pc = "wait"
    /\ alive' = Ended
    /\ \E rc \in {0, 1}, interrupted \in BOOLEAN :
        IF interrupted
        THEN Unwinds("KeyboardInterrupt") /\ UNCHANGED key
        ELSE IF Raised(run_cmd(rc))
        THEN Unwinds(run_cmd(rc).exc) /\ UNCHANGED key
        ELSE (\E k \in NextCommands(key) : GoesTo(k)) /\ UNCHANGED exc
    /\ UNCHANGED <<prog, num_runs, run, samples, rows, used_files, fs, now, ts>>
    /\ UNCHANGED <<binary, log>>
    /\ UNCHANGED funcVars
    /\ UNCHANGED cpuVars

\* cpu_state = setup_benchmark_cpu_mode()
Exec_Setup ==
    /\ prog = "execute_benchmark"
    /\ pc = "setup"
    /\ \E pinned \in BOOLEAN, writable \in BOOLEAN :
        LET r == setup_benchmark_cpu_mode(cpu, pinned, writable) IN
        /\ cpu_state' = r.state
        /\ cpu' = r.cpu
    /\ pc' = "run"
    /\ UNCHANGED restore_calls
    /\ UNCHANGED <<prog, num_runs, key, run, samples, rows, used_files, fs, now, ts,
                   exc>>
    /\ UNCHANGED <<binary, log, alive>>
    /\ UNCHANGED funcVars

\* The finally clause: restore_benchmark_cpu_mode(cpu_state), then the
\* files are handed back to the user of sudo; the pending exception, if
\* any, ends the script.
Exec_Finally ==
    /\ prog = "execute_benchmark"
    /\ pc = "finally"
    /\ restore_calls' = Append(restore_calls, cpu_state)
    /\ \E pinned \in BOOLEAN, writable \in BOOLEAN :
        cpu' = restore_benchmark_cpu_mode(cpu, cpu_state, pinned, writable)
    /\ pc' = IF exc = "none" THEN "done" ELSE "dead"
    /\ UNCHANGED cpu_state
    /\ UNCHANGED <<prog, num_runs, key, run, samples, rows, used_files, fs, now, ts,
                   exc>>
    /\ UNCHANGED <<binary, log, alive>>
    /\ UNCHANGED funcVars

InitExecute ==
    /\ values = NoValues
    /\ df = 0
    /\ ms_output = NoReport
    /\ call = "none"
    /\ ret = NoRet
    /\ prog = "execute_benchmark"
    /\ pc = "start"
    /\ num_runs \in 1..MaxRuns
    /\ key = 0
    /\ run = 0
    /\ samples = <<>>
    /\ rows = <<>>
    /\ used_files = <<>>
    /\ fs = {}
    /\ now = 0
    /\ ts = 0
    /\ exc = "none"
    /\ binary = "none"
    /\ log = <<>>
    /\ alive = <<>>
    /\ cpu \in CpuModes
    /\ cpu_state = Unbound
    /\ restore_calls = <<>>

NextExecute ==
    \/ Exec_Start
    \/ Exec_RunCmd
    \/ Exec_CmdExit
    \/ Exec_Setup
    \/ Exec_Finally

SpecExecute == InitExecute /\ [][NextExecute]_vars

(***************************************************************************)
(* Notions the claims are stated in.                                       *)
(***************************************************************************)
MaskCalls == {"iqr_mask", "agg_iqr_mask"}
FilterCalls == MaskCalls \cup {"iqr_filter_indices"}
MemEstimatorCalls == {"summary_with_ci", "agg_summary_with_ci"}
EstimatorCalls == MemEstimatorCalls \cup {"speed_summary"}

\* The k-th smallest sample of a list (k = 1 is the minimum).
OrderStat(vals, k) ==
    CHOOSE v \in {vals[i] : i \in DOMAIN vals} :
        /\ Cardinality({i \in DOMAIN vals : vals[i] < v}) < k
        /\ k <= Cardinality({i \in DOMAIN vals : vals[i] <= v})

\* Four times the i-th quartile by inclusive linear interpolation: the
\* value at position i*(n-1)/4 of the sorted list, counted from 0.
Quartile4(vals, i) ==
    LET pos == i * (Len(vals) - 1)
        lo == pos \div 4
        fr == pos % 4
    IN  IF fr = 0 THEN 4 * OrderStat(vals, lo + 1)
        ELSE 4 * OrderStat(vals, lo + 1)
             + fr * (OrderStat(vals, lo + 2) - OrderStat(vals, lo + 1))

IQR4(vals) == Quartile4(vals, 3) - Quartile4(vals, 1)
\* Eight times the bounds q1 - 1.5*iqr and q3 + 1.5*iqr.
Lower8(vals) == 2 * Quartile4(vals, 1) - 3 * IQR4(vals)
Upper8(vals) == 2 * Quartile4(vals, 3) + 3 * IQR4(vals)
WithinBounds(vals, v) == Lower8(vals) <= 8 * v /\ 8 * v <= Upper8(vals)

\* Whether the filter result in ret retains position i (1-based) of values.
Kept(i) ==
    IF call = "iqr_filter_indices"
    THEN \E k \in DOMAIN ret : ret[k] = i - 1
    ELSE ret[i]

\* The result has the shape of a retention of positions of values: a mask
\* of the same length, or strictly increasing 0-based positions.
WellShaped ==
    IF call = "iqr_filter_indices"
    THEN /\ \A k \in DOMAIN ret : ret[k] \in 0..(Len(values) - 1)
         /\ \A k \in 1..(Len(ret) - 1) : ret[k] < ret[k + 1]
    ELSE DOMAIN ret = DOMAIN values

KeepsAll ==
    IF call = "iqr_filter_indices"
    THEN ret = [i \in 1..Len(values) |-> i - 1]
    ELSE ret = [i \in 1..Len(values) |-> TRUE]

ZeroSurd == [mid |-> [num |-> 0, den |-> 1], c |-> 0, r |-> [num |-> 0, den |-> 1]]
Point(x) == [mid |-> x, c |-> 0, r |-> [num |-> 0, den |-> 1]]

\* The samples of values are whole numbers for the memory functions and
\* tenths for the speed functions.  Order, quartile positions and the
\* relation of a sample to the bounds do not depend on the unit.
SpeedCalls == {"iqr_filter_indices", "speed_summary"}
PerUnit == IF call \in SpeedCalls THEN 10 ELSE 1
Sample(i) == Rat(values[i], PerUnit)

\* C1: on fewer than 4 samples every outlier filter keeps every sample.
C1_SmallKeepsAll ==
    (call \in FilterCalls /\ Len(values) < 4) => KeepsAll

C1_Witness ==
    /\ call \in FilterCalls
    /\ Len(values) = 3
    /\ values[1] # values[2]
    /\ KeepsAll

\* C2: on at least 4 samples with a zero interquartile range every outlier
\* filter keeps every sample.
C2_ZeroIqrKeepsAll ==
    (call \in FilterCalls /\ Len(values) >= 4 /\ IQR4(values) = 0) => KeepsAll

\* The raw and the retained number of samples a summary row reports.
RawCount(row) ==
    IF prog = "run_speed_kem_benchmark" THEN row.n_raw ELSE row.num_runs_raw
FilteredCount(row) ==
    IF prog = "run_speed_kem_benchmark" THEN row.n_used ELSE row.num_runs_filtered

\* C3: in the direct collection, the cross-process aggregation and the
\* speed benchmark, the filtered count a row reports is at least 3 or equal
\* to the raw count: a filter result of fewer than 3 samples is discarded
\* for all raw samples.
C3_FilteredCountFloor ==
    \A k \in DOMAIN rows :
        FilteredCount(rows[k]) >= 3 \/ FilteredCount(rows[k]) = RawCount(rows[k])

\* C4: on at least 4 samples with a non-zero interquartile range a sample
\* is retained iff it lies within [q1 - 1.5 iqr, q3 + 1.5 iqr], bounds
\* included, and the retained positions are positions of the original list.
C4_RetainedIffWithinBounds ==
    (call \in FilterCalls /\ Len(values) >= 4 /\ IQR4(values) # 0) =>
        /\ WellShaped
        /\ \A i \in DOMAIN values : Kept(i) <=> WithinBounds(values, values[i])

\* C5: on a single sample x every interval estimator returns mean = x,
\* std = 0, ci_low = x and ci_high = x.
C5_SinglePoint ==
    (call \in EstimatorCalls /\ Len(values) = 1) =>
        ret = [exc |-> "none",
               val |-> [mean |-> Sample(1),
                        std |-> ZeroSurd,
                        ci_low |-> Point(Sample(1)),
                        ci_high |-> Point(Sample(1))]]

C5_Witness ==
    /\ call \in EstimatorCalls
    /\ values = <<2>>
    /\ ~Raised(ret)
    /\ ret.val.ci_high = Point(Sample(1))

\* C6: summary_with_ci raises on an empty list and returns no summary; the
\* direct collection started with zero repetitions ends in that error and
\* writes no CSV and no JSON file.
C6_EmptySampleFails ==
    /\ summary_with_ci(<<>>) = Raise("StatisticsError")
    /\ (prog = "collect_mem_massif" /\ num_runs = 0) =>
        /\ pc \in {"start", "collect", "dead"}
        /\ pc = "dead" => exc = "StatisticsError"
        /\ fs = {}

C6_Witness ==
    /\ prog = "collect_mem_massif"
    /\ num_runs = 0
    /\ pc = "dead"
    /\ exc = "StatisticsError"
    /\ samples = <<>>
    /\ fs = {}

\* The two-tailed 95% critical values of Student's t for 1..30 degrees of
\* freedom, in thousandths.
StudentT95 ==
    <<12706, 4303, 3182, 2776, 2571, 2447, 2365, 2306, 2262, 2228,
      2201, 2179, 2160, 2145, 2131, 2120, 2110, 2101, 2093, 2086,
      2080, 2074, 2069, 2064, 2060, 2056, 2052, 2048, 2045, 2042>>

CritCalls == {"t_critical_95", "agg_t_critical_95", "t_crit_95"}
MemCritCalls == {"t_critical_95", "agg_t_critical_95"}

TwoSampleBound(a, b, c) ==
    [mid |-> RDiv(RAdd(a, b), Float(2)),
     c |-> c,
     r |-> RDiv(RMul(RSub(a, b), RSub(a, b)), Float(4))]

C9_OrderInvariant ==
    [][(call \in {"agg_summary_with_ci", "agg_summary_with_ci reordered"}
        /\ call' = "agg_summary_with_ci reordered") => ret' = ret]_vars

C9_Witness ==
    /\ call = "agg_summary_with_ci reordered"
    /\ values = <<2, 0, 1>>
    /\ ~Raised(ret)
    /\ ret.val.std # ZeroSurd

\* Whether some line that begins with the "Detailed snapshots" header
\* carries an "<index> (peak)" marker.
HeaderCarriesMarker(text) ==
    LET lines == splitlines(text)
    IN  \E n \in DOMAIN lines :
            /\ startswith(lines[n], DetailedHeader)
            /\ \E i \in DOMAIN lines[n] : MatchAt(lines[n], i)

HasLine(text, line) ==
    \E n \in DOMAIN splitlines(text) : splitlines(text)[n] = line

\* C10: on a report in which no header line carries a peak marker the
\* parser fails with its error and returns no tuple.
C10_NoPeakMarkerFails ==
    (call = "parse_ms_print_output" /\ ~HeaderCarriesMarker(ms_output)) =>
        ret = RuntimeError("no peak snapshot")

C10_Witness ==
    /\ call = "parse_ms_print_output"
    /\ ~HeaderCarriesMarker(ms_output)
    /\ HasLine(ms_output, HeaderNoPeak)
    /\ HasLine(ms_output, StrayPeak2)
    /\ HasLine(ms_output, Row2)
    /\ Raised(ret)

\* The row the parser takes for the peak: the first line that starts with
\* the formatted peak index.
PeakRow(text) ==
    LET lines == splitlines(text)
    IN  FindPeakLine(lines, Format3d(FindPeakIndex(lines)))

PeakTokens(text) == split(RemoveCommas(PeakRow(text).line))

NoPeakRow(text) == HeaderCarriesMarker(text) /\ ~PeakRow(text).found

ShortPeakRow(text) ==
    /\ HeaderCarriesMarker(text)
    /\ PeakRow(text).found
    /\ Len(PeakTokens(text)) < 6

NonIntegerToken(text) ==
    /\ HeaderCarriesMarker(text)
    /\ PeakRow(text).found
    /\ Len(PeakTokens(text)) >= 6
    /\ \E k \in 2..6 : Raised(int(PeakTokens(text)[k]))

\* The kind of error the parser raises for a missing peak marker.
ParseErrorKind == RuntimeError("no peak snapshot").exc

\* C11: when no line matches the peak index, when the peak row has fewer
\* than 6 tokens, or when one of its tokens 1..5 is not an integer, the
\* parser fails with the error kind of the missing peak marker and returns
\* no tuple.
C11_RowFailuresSameKind ==
    (/\ call = "parse_ms_print_output"
     /\ \/ NoPeakRow(ms_output)
        \/ ShortPeakRow(ms_output)
        \/ NonIntegerToken(ms_output)) =>
        (Raised(ret) /\ ret.exc = ParseErrorKind)

\* The aggregation has computed its rows (and not yet returned).
Aggregated == prog = "run_all_mem_bench" /\ pc \in {"write_final", "delete"}

\* The samples of key k that were read are the five example peaks.
ExampleRead(k) ==
    /\ Len(samples[k]) = Len(ExampleMaxBytes)
    /\ sorted(Column(samples[k], "maxBytes")) = Floats(ExampleMaxBytes)

\* The samples of key k without those whose maxBytes is x.
Without(k, x) ==
    SelectSeq(samples[k], LAMBDA smp : smp.maxBytes # Float(x))

\* C12: the aggregation over 5 artifacts whose maxBytes values for a key
\* are 10, 11, 12, 13 and 100 discards exactly the sample 100: it reports
\* num_runs_raw = 5, num_runs_filtered = 4 and a maxBytes mean of 11.5, and
\* the summary of each of the five metrics is the summary of the 4 samples
\* at the retained positions.
C12_ExampleAggregation ==
    Aggregated =>
        \A k \in DOMAIN rows :
            ExampleRead(k) =>
                /\ rows[k].num_runs_raw = 5
                /\ rows[k].num_runs_filtered = 4
                /\ rows[k].summary["maxBytes"].mean = Rat(23, 2)
                /\ \A m \in Metrics :
                       rows[k].summary[m] =
                           agg_summary_with_ci(Column(Without(k, 100), m)).val

C12_Witness ==
    /\ Aggregated
    /\ num_runs = 5
    /\ DOMAIN rows = DOMAIN operations
    /\ \A k \in DOMAIN rows : ExampleRead(k)
    /\ rows[1].summary["insts"].mean = Rat(5, 2)

\* aggregate_mem_results is about to be called.
AtAggregation ==
    prog = "run_all_mem_bench" /\ pc = "children" /\ run >= num_runs

\* The files of the results directory with the requested prefix.
Matching == Glob(fs, results_dir(binary), csv_prefix(binary))

\* The file named <prefix><stamp>.csv of the results directory of the pass.
IsFinalName(f, stamp) ==
    /\ f.dir = results_dir(binary)
    /\ f.prefix = csv_prefix(binary)
    /\ f.ts = stamp
    /\ f.ext = "csv"

\* C13: when n artifacts are requested and k files with the prefix exist,
\* 0 < k < n, the aggregation prints a warning, does not fail, selects all
\* k files and writes a final summary in which num_runs_raw of each key is
\* the number of rows of that key in the k files.  (A pass in which the
\* operating system refuses to read an artifact or to write the summary
\* ends with that OSError, whatever the number of artifacts is.)
C13_FewerArtifactsWarn ==
    [][/\ (AtAggregation /\ Matching # {} /\ Cardinality(Matching) < num_runs
             /\ exc' # "OSError") =>
            /\ pc' = "write_final"
            /\ exc' = "none"
            /\ log' = Append(log, "[WARN] fewer")
            /\ Len(used_files') = Cardinality(Matching)
            /\ {used_files'[n] : n \in DOMAIN used_files'} = Matching
            /\ DOMAIN rows' = UNION {DOMAIN f.content : f \in Matching}
            /\ \A k \in DOMAIN rows' :
                   rows'[k].num_runs_raw =
                       Cardinality({f \in Matching : k \in DOMAIN f.content})
       /\ (prog = "run_all_mem_bench" /\ pc = "write_final"
             /\ Len(used_files) < num_runs /\ exc' # "OSError") =>
            /\ pc' = "delete"
            /\ exc' = "none"
            /\ \E f \in fs' : IsFinalName(f, ts') /\ f.content = rows
      ]_vars

C13_Witness ==
    /\ prog = "run_all_mem_bench"
    /\ pc = "delete"
    /\ Len(used_files) = 2
    /\ num_runs = 5
    /\ log = <<"[WARN] fewer", "[OK] final">>
    /\ \A k \in DOMAIN operations : rows[k].num_runs_raw = 2
    /\ \E f \in fs : IsFinalName(f, ts) /\ f.content = rows

\* run_collect of the KEM binary ends in this step without a final
\* summary: the binary is skipped, a child failed, or the aggregation found
\* no file.
KemEndsEmpty ==
    /\ prog = "run_all_mem_bench"
    /\ binary = "test_kem_mem"
    /\ log' \in {Append(log, "[WARN] binary"), Append(log, "[ERROR] child"),
                 Append(log, "[WARN] no csv")}

\* C14: when no file with the prefix exists the aggregation returns
\* normally, writes no file and deletes none; and when run_collect of the
\* KEM binary ends that way, by a skip or by an abort, main goes on to call
\* run_collect for the SIG binary: the batch script never ends normally
\* before that call.
C14_NoArtifactsContinue ==
    /\ [][/\ (AtAggregation /\ Matching = {}) =>
               /\ log' = Append(log, "[WARN] no csv")
               /\ fs' = fs
               /\ exc' = "none"
               /\ pc' \in {"start", "done"}
          /\ KemEndsEmpty =>
               /\ fs' = fs
               /\ exc' = "none"
               /\ pc' = "start"
               /\ binary' = "test_sig_mem"
         ]_vars
    /\ [](prog = "run_all_mem_bench" /\ pc = "done" => binary = "test_sig_mem")

C14_Witness ==
    /\ prog = "run_all_mem_bench"
    /\ binary = "test_sig_mem"
    /\ pc = "children"
    /\ Len(log) = 1
    /\ log[1] = "[WARN] no csv"
    /\ fs = {}

\* f bears the name of a selected CSV or of the JSON of the same base name.
ConsumedName(f) ==
    \E n \in DOMAIN used_files :
        /\ f.dir = used_files[n].dir
        /\ f.prefix = used_files[n].prefix
        /\ f.ts = used_files[n].ts
        /\ f.ext \in {"csv", "json"}

\* The removal loop ends in this step without a failed removal.
RemovesAll ==
    /\ prog = "run_all_mem_bench"
    /\ pc = "delete"
    /\ log' = Append(log, "[OK] removed")

\* C15: in a pass that found an artifact and in which no removal fails, no
\* consumed CSV and no JSON of the same base name is left when the pass
\* ends, and every other file of the directory is left as it was: no step
\* of the pass changes or removes a file that is not consumed.
C15_OnlyConsumedRemoved ==
    [][/\ AtAggregation => fs' = fs
       /\ (prog = "run_all_mem_bench" /\ pc = "write_final") =>
              \A f \in fs : ~ConsumedName(f) => f \in fs'
       /\ RemovesAll =>
              /\ \A f \in fs' : ~ConsumedName(f)
              /\ \A f \in fs : ~ConsumedName(f) => f \in fs'
      ]_vars

\* C16: when a pass that found an artifact returns, the final summary it
\* wrote is a file of the results directory, whatever the timestamps in
\* the file names are: the removal loop does not remove it.
C16_FinalSummarySurvives ==
    [][(prog = "run_all_mem_bench" /\ pc = "delete") =>
           \E f \in fs' : IsFinalName(f, ts) /\ f.content = rows]_vars

\* The set of the selected files.
UsedSet(used) == {used[n] : n \in DOMAIN used}

\* The samples of key k are those of the rows of key k of the files in
\* the set, one for each file that has the key.
SamplesFrom(smpls, k, files) ==
    /\ Len(smpls) = Cardinality({f \in files : k \in DOMAIN f.content})
    /\ \A i \in DOMAIN smpls :
           \E f \in files :
               k \in DOMAIN f.content /\ smpls[i] = RowSample(f.content[k])
    /\ \A f \in files :
           k \in DOMAIN f.content =>
               \E i \in DOMAIN smpls : smpls[i] = RowSample(f.content[k])

\* C17: when more than n files with the prefix exist, the aggregation
\* selects n of them, none of the others is modified later than a
\* selected one, and the samples of every key come from the selected
\* files only.
C17_MostRecentOnly ==
    [][(AtAggregation /\ Cardinality(Matching) > num_runs) =>
           /\ Len(used_files') = num_runs
           /\ Cardinality(UsedSet(used_files')) = num_runs
           /\ UsedSet(used_files') \subseteq Matching
           /\ \A f \in UsedSet(used_files') :
                  \A g \in Matching \ UsedSet(used_files') : g.mtime <= f.mtime
           /\ \A k \in DOMAIN samples' :
                  SamplesFrom(samples'[k], k, UsedSet(used_files'))
      ]_vars

C17_Witness ==
    /\ Aggregated
    /\ num_runs = 2
    /\ Cardinality(Matching) >= 5
    /\ {used_files[n].mtime : n \in DOMAIN used_files} = {4, 5}
    /\ Len(samples[1]) = 2

\* subprocess.run returns in this step; the child ended with a non-zero
\* exit code if the error of run_collect is printed.
ChildReturns == prog = "run_all_mem_bench" /\ pc = "child"
ChildFailed == ChildReturns /\ log' = Append(log, "[ERROR] child")

\* C18: when a child of run_collect exits with a non-zero status,
\* run_collect returns at once: no further child of that batch is started,
\* the aggregation is not called for it, no file is written and none is
\* deleted; main goes on with the next binary or ends, and never comes
\* back to the batch.
C18_ChildFailureAborts ==
    [][/\ ChildReturns =>
              \/ ChildFailed
              \/ run' = run + 1 /\ pc' = "children" /\ log' = log
       /\ ChildFailed =>
              /\ fs' = fs
              /\ alive' = <<>>
              /\ run' = run
              /\ used_files' = <<>> /\ rows' = <<>>
              /\ \/ binary = Binaries[1] /\ binary' = Binaries[2] /\ pc' = "start"
                 \/ binary = Binaries[2] /\ binary' = binary /\ pc' = "done"
       /\ (prog = "run_all_mem_bench" /\ binary' # binary) =>
              binary = Binaries[1] /\ binary' = Binaries[2]
       /\ (prog = "run_all_mem_bench" /\ pc \in {"done", "dead"}) => FALSE
      ]_vars

C18_Witness ==
    /\ prog = "run_all_mem_bench"
    /\ num_runs = 2
    /\ binary = Binaries[2]
    /\ pc = "start"
    /\ run = 1
    /\ log = <<"[ERROR] child">>
    /\ Cardinality(fs) = 2
    /\ \A f \in fs : f.dir = results_dir(Binaries[1])

\* The files an earlier run of the batch script left.
LeftFiles == UNION LeftDirectories

\* C19: the samples of a pass come only from the artifacts of the batch of
\* that pass: no file left by an earlier run, be it the artifact of an
\* aborted batch or an earlier final summary, is among the files a pass
\* selects and reads.
C19_OwnArtifactsOnly ==
    Aggregated => \A n \in DOMAIN used_files : used_files[n] \notin LeftFiles

\* The scripts whose children are measurement processes, and the children
\* each of them starts.
ChildrenOf ==
    [collect_mem_massif |-> {"valgrind", "ms_print"},
     run_all_mem_bench |-> {"collect_mem_massif.py"},
     run_speed_kem_benchmark |-> {"speed_kem"}]

\* C20: at every point of a run at most one measurement child started by
\* the script is alive, and a child is started only when none is alive or
\* in the step in which the script sees the previous one ended.
C20_OneChildAtATime ==
    /\ [](prog \in DOMAIN ChildrenOf =>
              /\ Len(alive) <= 1
              /\ \A n \in DOMAIN alive : alive[n] \in ChildrenOf[prog])
    /\ [][Len(alive') <= 1]_vars

C20_Witness ==
    /\ prog = "collect_mem_massif"
    /\ alive = <<"ms_print">>
    /\ Len(samples) = 1
    /\ key = 2

\* The profiler runs whose two processes ended with exit code 0 and whose
\* report has a peak row of five integers, and the sample each of them gives.
CompleteRuns ==
    {proc \in MassifOutcomes :
        /\ proc.valgrind = 0
        /\ proc.ms_print = 0
        /\ ~Raised(parse_ms_print_output(proc.stdout))}

SampleOfRun(proc) ==
    LET t == parse_ms_print_output(proc.stdout).val IN
    [insts |-> Float(t[1]), maxBytes |-> InMB(t[2]), maxHeap |-> InMB(t[3]),
     extHeap |-> InMB(t[4]), maxStack |-> InMB(t[5])]

CompleteSamples == {SampleOfRun(proc) : proc \in CompleteRuns}

\* C21: run_massif_once returns a record of all five metrics of one
\* profiler run or raises and returns nothing: when valgrind ends with a
\* non-zero exit code ms_print is never started, and when ms_print ends with
\* a non-zero exit code or its report cannot be parsed no record reaches
\* the caller.
C21_AllOrNothing ==
    [][/\ (prog = "collect_mem_massif" /\ pc = "valgrind") =>
              \/ /\ pc' = "ms_print" /\ alive' = <<"ms_print">>
                 /\ samples' = samples /\ exc' = exc
              \/ /\ pc' = "dead" /\ alive' = <<>>
                 /\ samples' = samples /\ exc' = "RuntimeError"
       /\ (prog = "collect_mem_massif" /\ pc = "ms_print") =>
              \/ /\ pc' = "collect" /\ exc' = exc
                 /\ \E s \in CompleteSamples : samples' = Append(samples, s)
                 /\ DOMAIN samples'[Len(samples')] = Metrics
              \/ /\ pc' = "dead" /\ samples' = samples
                 /\ exc' = "RuntimeError"
       /\ (prog = "collect_mem_massif" /\ pc # "ms_print") =>
              (samples' = samples \/ samples' = <<>>)
      ]_vars

C21_Witness ==
    /\ prog = "collect_mem_massif"
    /\ pc = "dead"
    /\ exc = "RuntimeError"
    /\ Len(samples) = 1
    /\ samples[1] \in CompleteSamples
    /\ alive = <<>>

\* The script waits for the child of one sample of a direct collection.
SampleChildReturns ==
    \/ prog = "collect_mem_massif" /\ pc \in {"valgrind", "ms_print"}
    \/ prog = "run_speed_kem_benchmark" /\ pc = "run"

\* C22: in a direct collection (collect_mem_massif.main, run_benchmarks) the
\* failure of the child of one sample abandons that sample alone: the
\* script goes on with the remaining repetitions and keys and no exception
\* ends it.
C22_SampleFailureAbandonsSample ==
    [][SampleChildReturns => (pc' # "dead" /\ exc' = exc)]_vars

\* The runs whose artifacts the pass selected, in the order in which they
\* were measured, and the raw sample a direct collection appends for the
\* measurement of run i.
UsedRuns ==
    [n \in DOMAIN used_files |-> used_files[Len(used_files) + 1 - n].ts]

DirectSamples ==
    [n \in DOMAIN UsedRuns |->
        RawSample(Measured(ExampleMaxBytes[UsedRuns[n]], UsedRuns[n]))]

\* C23: for n >= 1 samples of a key, n collector runs of one sample each
\* followed by aggregate_mem_results over their n artifacts give the same
\* row (num_runs_raw, num_runs_filtered and mean, std, ci_low, ci_high of
\* every metric) as the direct collection of the same n samples in one run.
C23_CrossEqualsDirect ==
    (Aggregated /\ num_runs >= 1) =>
        /\ Len(DirectSamples) >= 1
        /\ DOMAIN rows = DOMAIN operations
        /\ \A k \in DOMAIN rows : rows[k] = main_row(DirectSamples).val

C23_Witness ==
    /\ Aggregated
    /\ Len(used_files) = 5
    /\ DOMAIN rows = DOMAIN operations
    /\ rows[2] = main_row(DirectSamples).val
    /\ rows[2].num_runs_raw = 5
    /\ rows[2].num_runs_filtered = 4
    /\ rows[2].summary["maxStack"].mean = Rat(5, 2)

\* The removal loop ends in this step after at least one failed removal,
\* and the number of removals that failed: one warning is printed for each.
RemovalFails ==
    /\ prog = "run_all_mem_bench"
    /\ pc = "delete"
    /\ log' # Append(log, "[OK] removed")

FailedRemovals == Len(log') - Len(log) - 1

\* The selected files of which the CSV or the JSON is left after the step.
LeftSelected ==
    {n \in DOMAIN used_files :
        \E f \in fs' :
            /\ f.dir = used_files[n].dir
            /\ f.prefix = used_files[n].prefix
            /\ f.ts = used_files[n].ts}

\* C24: a failed removal of a consumed artifact does not abort the pass:
\* the loop goes on to every other consumed artifact, so that at most one
\* selected name per failure is left; a warning is printed for each
\* failure; no file is lost that a pass without failure keeps, the final
\* summary among them; and the function returns to main without an
\* exception.
C24_RemovalFailureNotFatal ==
    [][RemovalFails =>
           /\ FailedRemovals >= 1
           /\ \A n \in 1..FailedRemovals : log'[Len(log) + n] = "[WARN] remove"
           /\ log'[Len(log')] = "[OK] removed"
           /\ Cardinality(LeftSelected) <= FailedRemovals
           /\ fs' \subseteq fs
           /\ AfterRemoval(fs, used_files,
                           [n \in DOMAIN used_files |-> "removed"]) \subseteq fs'
           /\ \A f \in fs : (IsFinalName(f, ts) /\ ~ConsumedName(f)) => f \in fs'
           /\ exc' = exc
           /\ pc' \in {"start", "done"}
      ]_vars

C24_Witness ==
    /\ prog = "run_all_mem_bench"
    /\ pc = "start"
    /\ exc = "none"
    /\ Len(used_files) = 3
    /\ log = <<"[OK] final", "[WARN] remove", "[OK] removed">>
    /\ Cardinality({f \in fs : ConsumedName(f)}) = 2
    /\ \E f \in fs :
           /\ f.prefix = csv_prefix(Binaries[1])
           /\ f.ts = ts
           /\ f.ext = "csv"
           /\ f.content = rows
           /\ ~ConsumedName(f)

\* The snapshot-index column of a line: its first token.
IndexColumn(line) ==
    LET tokens == split(RemoveCommas(line))
    IN  IF tokens = <<>> THEN <<>> ELSE tokens[1]

\* The lines of a report whose snapshot-index column is p, and a snapshot
\* row: six tokens or more, the first six of them integers.
RowsOf(text, p) ==
    {n \in DOMAIN splitlines(text) : IndexColumn(splitlines(text)[n]) = Decimal(p)}

IsSnapshotRow(line) ==
    LET tokens == split(RemoveCommas(line))
    IN  Len(tokens) >= 6 /\ \A k \in 1..6 : ~Raised(int(tokens[k]))

\* C25: on a report whose header carries the peak marker of an index p >= 0
\* and that has a snapshot row for p, the parser returns the tokens 1..5
\* of the row whose snapshot-index column is p, whatever lines precede
\* that row.
C25_RowOfPeakIndex ==
    call = "parse_ms_print_output" =>
        LET lines == splitlines(ms_output)
            p == FindPeakIndex(lines)
        IN  \A n \in DOMAIN lines :
                (/\ p >= 0
                 /\ RowsOf(ms_output, p) = {n}
                 /\ IsSnapshotRow(lines[n])) =>
                    ret = MapInt(SubSeq(split(RemoveCommas(lines[n])), 2, 6))

\* The elements of a list at the positions of a set, in their order.
AtPositions(lst, kept) ==
    [j \in 1..Cardinality(kept) |->
        lst[CHOOSE i \in kept : Cardinality({x \in kept : x <= i}) = j]]

\* The row of a key is made with one mask: the positions kept are a
\* function of the maxBytes samples, every metric is summarised over the
\* samples at these positions, and their number is the filtered count.
OneMaskRow(row, smpls) ==
    LET n == Len(smpls)
        mask == GuardedMask(iqr_mask(Column(smpls, "maxBytes")), n)
        kept == {i \in 1..n : mask[i]}
    IN  /\ row.num_runs_raw = n
        /\ row.num_runs_filtered = Cardinality(kept)
        /\ 1 <= row.num_runs_filtered
        /\ row.num_runs_filtered <= row.num_runs_raw
        /\ \A m \in Metrics :
               LET filtered == AtPositions(Column(smpls, m), kept)
               IN  /\ Len(filtered) = row.num_runs_filtered
                   /\ row.summary[m] = summary_with_ci(filtered).val

SpeedMetrics == {"iterations", "total_time_s", "time_us_mean", "cycles_mean"}

\* C28: in run_benchmarks the sample lists of keygen, encaps and decaps
\* have the same length after every run: a run appends one sample, with
\* all four metrics, to the lists of each of the three operations, or
\* (failed process, missing operation) appends nothing to any list.
C28_SpeedListsSameLength ==
    /\ [](prog = "run_speed_kem_benchmark" =>
              \A k \in DOMAIN samples : \A j \in DOMAIN samples :
                  Len(samples[k]) = Len(samples[j]))
    /\ [][(prog = "run_speed_kem_benchmark" /\ pc = "run") =>
              \/ samples' = samples
              \/ \A k \in DOMAIN OPERATIONS :
                     /\ Len(samples'[k]) = Len(samples[k]) + 1
                     /\ SubSeq(samples'[k], 1, Len(samples[k])) = samples[k]
                     /\ DOMAIN samples'[k][Len(samples'[k])] = SpeedMetrics
          ]_vars

C28_Witness ==
    /\ prog = "run_speed_kem_benchmark"
    /\ pc = "runs"
    /\ run = 3
    /\ DOMAIN samples = DOMAIN OPERATIONS
    /\ \A k \in DOMAIN samples : Len(samples[k]) = 1

\* Every file of the directory is, under its name, a file of the
\* directory after the step.
NamesKept == \A f \in fs : \E g \in fs' : SameName(g, f)

\* C30: aggregate_mem_results removes no file before the final CSV is
\* written with all its rows: when the read of an artifact or the write
\* of the final CSV fails, the pass ends there and every file that
\* existed before the pass exists under its name; a file is removed only
\* in the removal loop, which starts with the complete final CSV in the
\* directory.
C30_NoRemovalBeforeFinal ==
    [][prog = "run_all_mem_bench" =>
           /\ pc # "delete" => NamesKept
           /\ pc = "delete" =>
                  \E f \in fs : IsFinalName(f, ts) /\ f.content = rows
           /\ exc' = "OSError" =>
                  /\ pc \in {"children", "write_final"}
                  /\ pc' = "dead"
                  /\ NamesKept
           /\ pc = "dead" => FALSE
      ]_vars

C30_Witness ==
    /\ prog = "run_all_mem_bench"
    /\ pc = "dead"
    /\ exc = "OSError"
    /\ Len(used_files) = 5
    /\ rows # <<>>
    /\ \A i \in DOMAIN ExampleMaxBytes :
           \A ext \in {"csv", "json"} :
               \E g \in fs : SameName(g, Artifact(i, ext))
    /\ \E g \in fs : g.ts = ts /\ g.content = <<>> /\ g.ext = "csv"
                        /\ g.prefix = csv_prefix(Binaries[1])

\* The calls of iqr_mask: on byte counts in MiB, which are binary
\* fractions, and on decimal fractions.
ExactMaskCalls == MaskCalls
AnyMaskCalls == MaskCalls \cup {"iqr_mask decimals"}

\* The mask in ret retains at least 3 samples, so that the fallback of the
\* callers leaves it as it is.
RetainsThree ==
    /\ CountTrue(ret) >= 3
    /\ GuardedMask(ret, Len(values)) = ret

\* A sample that lies on a bound of the filter is not retained.
DropsOnBound ==
    \E i \in DOMAIN values :
        /\ ~ret[i]
        /\ 8 * values[i] \in {Lower8(values), Upper8(values)}

DriverEnded == prog = "execute_benchmark" /\ pc \in {"done", "dead"}

\* C26: once setup_benchmark_cpu_mode has returned, the state it returned
\* is never replaced, and when the pipeline driver has ended (normally, by
\* the SystemExit of a step or by an interrupt during a step)
\* restore_benchmark_cpu_mode has been called, once, with that state.
C26_RestoreOnEveryPath ==
    /\ [](DriverEnded /\ cpu_state # Unbound => restore_calls = <<cpu_state>>)
    /\ [](prog = "execute_benchmark" /\ exc # "none" /\ cpu_state # Unbound =>
              /\ exc \in {"SystemExit", "KeyboardInterrupt"}
              /\ pc \in {"finally", "dead"})
    /\ [][prog = "execute_benchmark" /\ cpu_state # Unbound =>
              cpu_state' = cpu_state]_vars

C26_Witness ==
    /\ DriverEnded
    /\ exc = "KeyboardInterrupt"
    /\ Commands[key] = "run_all_mem_bench.py"
    /\ cpu_state.affinity_original = "all"
    /\ cpu_state.turbo = "on"
    /\ restore_calls = <<cpu_state>>
    /\ cpu.affinity = "all"
    /\ cpu.turbo = "on"

====
